---- MODULE Spec2Model ----
(***************************************************************************)
(* Package pub (src/metrics/sentries/stdout/logs.go, lines 272-804): the   *)
(* node dispatch and fan-out engine.  A node (struct pub) holds a handler  *)
(* op, an async flag, a sync.RWMutex rw and a subscriber slice subs.       *)
(* Every goroutine is a task with a call stack of frames; one action is    *)
(* one step of the frame on top of a task's stack.                         *)
(* Package vfx (src/unnamed/part_000, lines 231-344 and 346-639): the two  *)
(* AnimationSequence frames, one of which is built and driven by calls of  *)
(* its methods.                                                            *)
(***************************************************************************)
EXTENDS Integers, Sequences, FiniteSets, TLC

VARIABLES
    subs,      \* subs[n]: pub.subs of node n, the subscriber slice
    async,     \* async[n]: pub.async
    kind,      \* kind[n]: which handler pub.op holds ("H", "D", "E")
    readers,   \* readers[n]: goroutines holding pub.rw in shared mode
    writer,    \* writer[n]: the task that called pub.rw.Lock (0: none)
    stack,     \* stack[t]: call stack of task t, top frame first
    spawned,   \* number of goroutines started by `go p.op(...)`
    calls,     \* number of top-level calls made by the callers
    crashed,   \* a run-time panic ended the program
    rlog,      \* rlog[n]: the values passed to n.Read, in call order
    rret,      \* rret[n]: number of n.Read calls that have returned
    hlog,      \* hlog[n]: the arguments of each invocation of n's op
    hdone,     \* hdone[n]: number of invocations of n's op that returned
    ulog,      \* ulog[n]: the arguments of each call of the wrapped dh
    count,     \* count[n]: the counter of TestMousePosition's handler
    wcnt,      \* wcnt[n]: number of invocations of n.Write
    wdone,     \* the Write and WriteEvery calls that have returned
    sigs,      \* the Signal and AsyncSignal calls that have returned
    created,   \* number of nodes constructed so far: they are 1..created
    ret,       \* ret[t]: what the last top-level call of task t returned
    subs0,     \* the subscriber lists before the first call
    anim       \* the AnimationSequence built, when one is

vars == <<subs, async, kind, readers, writer, stack, spawned, calls, crashed,
          rlog, rret, hlog, hdone, ulog, count, wcnt, wdone, sigs, created, ret,
          subs0, anim>>

(***************************************************************************)
(* Bounds of the model.                                                    *)
(***************************************************************************)
NumNodes == 3
MaxCalls == 2
NumCallers == 3
MaxList == 3
MaxDepth == 5
MaxSteps == 4

\* The nodes built by the constructors before the first call, and every node
\* there can be: a Signal call builds at most one.
Nodes == 1..NumNodes
AllNodes == 1..(NumNodes + MaxCalls)
Callers == 1..NumCallers
Tasks == 1..(NumCallers + MaxCalls)

\* Go's nil: the absent error, the absent payload, the absent node.
Nil == 0
\* A value is error-class when its dynamic type implements error: v.(error).
\* Errors are the negative values, payloads the positive ones.
Errors == {-1}
Payloads == {1}
Values == Errors \cup Payloads
IsError(v) == v \in Errors

\* context.New(), the carrier Read builds when the caller passes none.
NewCtx == 0
Carriers == {5}
NoCtx == <<>>

\* The handler shapes a node's op can hold: a canonical Handler, WrapData(dh),
\* WrapError(dh), and "R", the adapter Signal builds around a function it
\* accepts by reflection.
Kinds == {"H", "D", "E", "R"}

\* What a caller passes to Signal: a Node, a function of one of the three named
\* types of the type switch (Accepted), or a value that reaches the default
\* case (Others): no function at all, a function of two, four or three
\* parameters, the last with a first parameter that cannot hold a Ctx, with a
\* second that cannot hold an error, or with both fitting.
NoArg == [t |-> "none", id |-> Nil]
NodeArg(n) == [t |-> "Node", id |-> n]
ShapeArg(s) == [t |-> s, id |-> Nil]
Accepted == {"Handler", "ErrorHandler", "DataHandler"}
Others == {"NotFunc", "Func2", "Func4", "Func3NoCtx", "Func3NoErr", "Func3"}

\* reflection.IsFuncType(node)
IsFuncType(s) == s # "NotFunc"

\* len(args) of reflection.GetFuncArgumentsType(node)
ArgsLen(s) ==
    CASE s = "NotFunc" -> 0
      [] s = "Func2" -> 2
      [] s = "Func4" -> 4
      [] OTHER -> 3

\* reflection.CanSetForType(ctxType, args[0]), CanSetForType(errorType, args[1])
CtxFits(s) == s # "Func3NoCtx"
ErrFits(s) == s # "Func3NoErr"

\* The checks of the default case without the check of the number of
\* parameters.
AdaptsAnyLen(s) == IsFuncType(s) /\ CtxFits(s) /\ ErrFits(s)

\* The checks of the default case: each one that fails returns nil.
Adapts(s) ==
    /\ IsFuncType(s)
    /\ ~(ArgsLen(s) < 3 \/ ArgsLen(s) > 3)
    /\ CtxFits(s)
    /\ ErrFits(s)

Rejected == {s \in Others : ~Adapts(s)}

(***************************************************************************)
(* Frames.  Every frame carries the same fields; a function uses the ones  *)
(* its locals need.                                                        *)
(*   p        the receiver (p *pub)                                        *)
(*   v, d     Read: b; Write: v; Handler: err and data                     *)
(*   carrier  ctx.Ctx() of the Ctx the call received                       *)
(*   surface  ctx.RW() of the Ctx the call received                        *)
(*   i, nlen  loop index and nlen                                          *)
(*   rng      the slice a range loop iterates                              *)
(*   x, n     Signal: the argument and the node it resolved to             *)
(*   lst      Lift, DeLift: rws; Read: ctxs                                *)
(*   sent     the (node, value) of each Write this call invoked, in order  *)
(***************************************************************************)
NewFrame(fn, pc, p, v, d, carrier, surface) ==
    [fn |-> fn, pc |-> pc, p |-> p, v |-> v, d |-> d, carrier |-> carrier,
     surface |-> surface, i |-> 0, nlen |-> 0, rng |-> <<>>, finder |-> "nil",
     x |-> NoArg, n |-> Nil, lst |-> <<>>, sent |-> <<>>]

Top(t) == Head(stack[t])
Rest(t) == Tail(stack[t])
Idle(t) == stack[t] = <<>>
At(t, fn, pc) == ~crashed /\ ~Idle(t) /\ Top(t).fn = fn /\ Top(t).pc = pc

\* Replace the top frame of t by the frames fs.
SetTop(t, fs) == [stack EXCEPT ![t] = fs \o Rest(t)]

(***************************************************************************)
(* sync.RWMutex, as pub.rw uses it.  Lock first takes the writer slot,     *)
(* which keeps later RLock calls out, then waits for the readers to leave. *)
(***************************************************************************)
\* An RLock that also waits for the other readers to leave.
CanRLockAlone(n) == writer[n] = 0 /\ readers[n] = 0

\* RLock returns when no writer holds or awaits the lock.
CanRLock(n) == writer[n] = 0

\* A Lock that does not wait for another writer.
CanLockOver(n) == writer[n] >= 0

\* Lock takes the writer slot when no other writer holds or awaits the lock.
CanLock(n) == writer[n] = 0

\* A Lock that does not wait for the readers.
CanEnterOver(n) == readers[n] >= 0

\* Lock returns when the last reader has left.
CanEnter(n) == readers[n] = 0

(***************************************************************************)
(* pub.Write, lines 481-507.                                               *)
(***************************************************************************)
\* An invocation node.Write(ctx, v): the callee's frame.
WriteFrame(node, carrier, surface, v) ==
    NewFrame("Write", "rlock", node, v, Nil, carrier, surface)

\* The value Write hands to a subscriber: err when v is an error, else v.
Forwarded(v) == IF IsError(v) THEN v ELSE v

\* p.rw.RLock(), then the range expression p.subs is evaluated.
WriteRLock(t) ==
    /\ At(t, "Write", "rlock")
    /\ CanRLock(Top(t).p)
    /\ readers' = [readers EXCEPT ![Top(t).p] = @ + 1]
    /\ stack' = SetTop(t, <<[Top(t) EXCEPT !.pc = "loop", !.i = 0,
                                           !.rng = subs[Top(t).p]]>>)
    /\ UNCHANGED <<anim, subs0, subs, async, kind, writer, spawned, calls, crashed, rlog,
                   rret, hlog, hdone, ulog, count, wcnt, wdone, sigs, created, ret>>

\* WriteLoop with `break` where the code has `continue`: the loop ends after
\* the first subscriber.
WriteLoopBreak(t) ==
    /\ At(t, "Write", "loop")
    /\ Top(t).i < Len(Top(t).rng)
    /\ LET f == Top(t)
           node == f.rng[f.i + 1]
       IN  /\ stack' = SetTop(t, <<WriteFrame(node, f.carrier, f.p, Forwarded(f.v)),
                                   [f EXCEPT !.i = Len(f.rng),
                                             !.sent = Append(@, [n |-> node,
                                                 v |-> Forwarded(f.v), pos |-> f.i])]>>)
           /\ wcnt' = [wcnt EXCEPT ![node] = @ + 1]
    /\ UNCHANGED <<anim, subs0, subs, async, kind, readers, writer, spawned, calls, crashed,
                   rlog, rret, hlog, hdone, ulog, count, wdone, sigs, created, ret>>

\* WriteLoop calling the subscriber's op where the code calls its Write.
WriteLoopOp(t) ==
    /\ At(t, "Write", "loop")
    /\ Top(t).i < Len(Top(t).rng)
    /\ LET f == Top(t)
           node == f.rng[f.i + 1]
       IN  stack' = SetTop(t,
               <<NewFrame("Handler", "start", node, IF IsError(f.v) THEN f.v ELSE Nil,
                          IF IsError(f.v) THEN Nil ELSE f.v, f.carrier, node),
                 [f EXCEPT !.i = @ + 1]>>)
    /\ UNCHANGED <<anim, subs0, subs, async, kind, readers, writer, spawned, calls, crashed,
                   rlog, rret, hlog, hdone, ulog, count, wcnt, wdone, sigs,
                   created, ret>>

\* A WriteLoop that passes over a subscriber whose Write is already running in
\* the same task: a fan-out with a check for cycles.
WriteLoopAcyclic(t) ==
    /\ At(t, "Write", "loop")
    /\ Top(t).i < Len(Top(t).rng)
    /\ LET f == Top(t)
           node == f.rng[f.i + 1]
           seen == \E k \in 1..Len(stack[t]) :
                       stack[t][k].fn = "Write" /\ stack[t][k].p = node
       IN  /\ stack' = SetTop(t,
                  IF seen THEN <<[f EXCEPT !.i = @ + 1]>>
                  ELSE <<WriteFrame(node, f.carrier, f.p, Forwarded(f.v)),
                         [f EXCEPT !.i = @ + 1,
                                   !.sent = Append(@, [n |-> node,
                                       v |-> Forwarded(f.v), pos |-> f.i])]>>)
           /\ wcnt' = [wcnt EXCEPT ![node] = IF seen THEN @ ELSE @ + 1]
    /\ UNCHANGED <<anim, subs0, subs, async, kind, readers, writer, spawned, calls, crashed,
                   rlog, rret, hlog, hdone, ulog, count, wdone, sigs, created, ret>>

\* WriteLoop handing on the Ctx it received: node.Write(ctx, v).
WriteLoopSameCtx(t) ==
    /\ At(t, "Write", "loop")
    /\ Top(t).i < Len(Top(t).rng)
    /\ LET f == Top(t)
           node == f.rng[f.i + 1]
       IN  /\ stack' = SetTop(t, <<WriteFrame(node, f.carrier, f.surface, Forwarded(f.v)),
                                   [f EXCEPT !.i = @ + 1,
                                             !.sent = Append(@, [n |-> node,
                                                 v |-> Forwarded(f.v), pos |-> f.i])]>>)
           /\ wcnt' = [wcnt EXCEPT ![node] = @ + 1]
    /\ UNCHANGED <<anim, subs0, subs, async, kind, readers, writer, spawned, calls, crashed,
                   rlog, rret, hlog, hdone, ulog, count, wdone, sigs, created, ret>>

\* One iteration: node.Write(ctxn, v) with ctxn = {ctx.Ctx(), p}.
WriteLoop(t) ==
    /\ At(t, "Write", "loop")
    /\ Top(t).i < Len(Top(t).rng)
    /\ LET f == Top(t)
           node == f.rng[f.i + 1]
       IN  /\ stack' = SetTop(t, <<WriteFrame(node, f.carrier, f.p, Forwarded(f.v)),
                                   [f EXCEPT !.i = @ + 1,
                                             !.sent = Append(@, [n |-> node,
                                                 v |-> Forwarded(f.v), pos |-> f.i])]>>)
           /\ wcnt' = [wcnt EXCEPT ![node] = @ + 1]
    /\ UNCHANGED <<anim, subs0, subs, async, kind, readers, writer, spawned, calls, crashed,
                   rlog, rret, hlog, hdone, ulog, count, wdone, sigs, created, ret>>

\* WriteRUnlock without the p.rw.RUnlock(): Write returns with the read lock
\* still taken.
WriteReturnLocked(t) ==
    /\ At(t, "Write", "loop")
    /\ Top(t).i >= Len(Top(t).rng)
    /\ stack' = SetTop(t, <<>>)
    /\ wdone' = wdone \cup {[fn |-> "Write", p |-> Top(t).p, v |-> Top(t).v,
                             nlen |-> Len(Top(t).rng), finder |-> "nil",
                             sent |-> Top(t).sent, list |-> subs[Top(t).p]]}
    /\ UNCHANGED <<anim, subs0, subs, async, kind, readers, writer, spawned, calls, crashed,
                   rlog, rret, hlog, hdone, ulog, count, wcnt, sigs, created, ret>>

\* The loop is over: p.rw.RUnlock() and return.
WriteRUnlock(t) ==
    /\ At(t, "Write", "loop")
    /\ Top(t).i >= Len(Top(t).rng)
    /\ readers' = [readers EXCEPT ![Top(t).p] = @ - 1]
    /\ stack' = SetTop(t, <<>>)
    /\ wdone' = wdone \cup {[fn |-> "Write", p |-> Top(t).p, v |-> Top(t).v,
                             nlen |-> Len(Top(t).rng), finder |-> "nil",
                             sent |-> Top(t).sent, list |-> subs[Top(t).p]]}
    /\ UNCHANGED <<anim, subs0, subs, async, kind, writer, spawned, calls, crashed, rlog,
                   rret, hlog, hdone, ulog, count, wcnt, sigs, created, ret>>

(***************************************************************************)
(* pub.WriteEvery, lines 509-555.                                          *)
(***************************************************************************)
defaultFinder(index, length) == index

\* The NthFinder values a caller passes: nil, or a function of its own.
Finders == {"nil", "succ", "zero"}

\* finder(index, nlen), after `if finder == nil { finder = defaultFinder }`.
Find(fd, index, length) ==
    CASE fd = "nil" -> defaultFinder(index, length)
      [] fd = "succ" -> index + 1
      [] fd = "zero" -> 0

\* The test of line 541 with an inclusive lower bound.
InBoundsFromZero(newIndex, nlen) == newIndex >= 0 /\ newIndex < nlen

\* The test `newIndex > 0 && newIndex < nlen` of line 541.
InBounds(newIndex, nlen) == newIndex > 0 /\ newIndex < nlen

\* WriteEveryLen with the capacity of the slice for its length:
\* nlen := cap(p.subs), here one more than the length.
WriteEveryLenCap(t) ==
    /\ At(t, "WriteEvery", "len")
    /\ stack' = SetTop(t, <<[Top(t) EXCEPT !.pc = "rlock",
                                           !.nlen = Len(subs[Top(t).p]) + 1]>>)
    /\ UNCHANGED <<anim, subs0, subs, async, kind, readers, writer, spawned, calls, crashed,
                   rlog, rret, hlog, hdone, ulog, count, wcnt, wdone, sigs, created, ret>>

\* nlen := len(p.subs), read before the lock is taken (line 534).
WriteEveryLen(t) ==
    /\ At(t, "WriteEvery", "len")
    /\ stack' = SetTop(t, <<[Top(t) EXCEPT !.pc = "rlock",
                                           !.nlen = Len(subs[Top(t).p])]>>)
    /\ UNCHANGED <<anim, subs0, subs, async, kind, readers, writer, spawned, calls, crashed,
                   rlog, rret, hlog, hdone, ulog, count, wcnt, wdone, sigs, created, ret>>

WriteEveryRLock(t) ==
    /\ At(t, "WriteEvery", "rlock")
    /\ CanRLock(Top(t).p)
    /\ readers' = [readers EXCEPT ![Top(t).p] = @ + 1]
    /\ stack' = SetTop(t, <<[Top(t) EXCEPT !.pc = "loop", !.i = 0]>>)
    /\ UNCHANGED <<anim, subs0, subs, async, kind, writer, spawned, calls, crashed, rlog,
                   rret, hlog, hdone, ulog, count, wcnt, wdone, sigs, created, ret>>

\* An iteration that passes the test: node := p.subs[index]; node.Write(ctxn, v).
\* An index past the end of p.subs is a run-time panic.
WriteEveryForward(t) ==
    /\ At(t, "WriteEvery", "loop")
    /\ Top(t).i < Top(t).nlen
    /\ InBounds(Find(Top(t).finder, Top(t).i, Top(t).nlen), Top(t).nlen)
    /\ LET f == Top(t)
       IN  IF f.i < Len(subs[f.p])
           THEN LET node == subs[f.p][f.i + 1]
                IN  /\ stack' = SetTop(t,
                           <<WriteFrame(node, f.carrier, f.p, Forwarded(f.v)),
                             [f EXCEPT !.i = @ + 1,
                                       !.sent = Append(@, [n |-> node,
                                                   v |-> Forwarded(f.v),
                                                   pos |-> f.i])]>>)
                    /\ wcnt' = [wcnt EXCEPT ![node] = @ + 1]
                    /\ UNCHANGED crashed
           ELSE /\ crashed' = TRUE
                /\ UNCHANGED <<subs0, stack, wcnt>>
    /\ UNCHANGED <<anim, subs0, subs, async, kind, readers, writer, spawned, calls, rlog,
                   rret, hlog, hdone, ulog, count, wdone, sigs, created, ret>>

\* An iteration that fails the test: nothing is forwarded.
WriteEverySkip(t) ==
    /\ At(t, "WriteEvery", "loop")
    /\ Top(t).i < Top(t).nlen
    /\ ~InBounds(Find(Top(t).finder, Top(t).i, Top(t).nlen), Top(t).nlen)
    /\ stack' = SetTop(t, <<[Top(t) EXCEPT !.i = @ + 1]>>)
    /\ UNCHANGED <<anim, subs0, subs, async, kind, readers, writer, spawned, calls, crashed,
                   rlog, rret, hlog, hdone, ulog, count, wcnt, wdone, sigs, created, ret>>

WriteEveryRUnlock(t) ==
    /\ At(t, "WriteEvery", "loop")
    /\ Top(t).i >= Top(t).nlen
    /\ readers' = [readers EXCEPT ![Top(t).p] = @ - 1]
    /\ stack' = SetTop(t, <<>>)
    /\ wdone' = wdone \cup {[fn |-> "WriteEvery", p |-> Top(t).p, v |-> Top(t).v,
                             nlen |-> Top(t).nlen, finder |-> Top(t).finder,
                             sent |-> Top(t).sent, list |-> subs[Top(t).p]]}
    /\ UNCHANGED <<anim, subs0, subs, async, kind, writer, spawned, calls, crashed, rlog,
                   rret, hlog, hdone, ulog, count, wcnt, sigs, created, ret>>

(***************************************************************************)
(* pub.Read, lines 437-467.  The Ctx handed to the handler is              *)
(* ctxn = {ctx, p}: the carrier of the call and the node itself.           *)
(***************************************************************************)
\* The classification `err, ok := b.(error)`: the (err, data) the op receives.
ReadErr(b) == IF IsError(b) THEN b ELSE Nil

\* A data argument that is b whatever its class.
ReadDataAlways(b) == b

ReadData(b) == IF IsError(b) THEN Nil ELSE b

\* The invocation p.op(ctxn, err, data) that Read(b) makes.
HandlerFrame(f) ==
    NewFrame("Handler", "start", f.p, ReadErr(f.v), ReadData(f.v), f.carrier, f.p)

\* The goroutine a `go` statement starts.
NextTask == NumCallers + spawned + 1

\* ReadAsync without the `go`: the op is called inline.
ReadAsyncInline(t) ==
    /\ At(t, "Read", "start")
    /\ async[Top(t).p]
    /\ stack' = SetTop(t, <<HandlerFrame(Top(t)), [Top(t) EXCEPT !.pc = "ret"]>>)
    /\ UNCHANGED <<anim, subs0, subs, async, kind, readers, writer, spawned, calls, crashed,
                   rlog, rret, hlog, hdone, ulog, count, wcnt, wdone, sigs,
                   created, ret>>

\* ReadAsync without the `go` statement: Read returns and no one runs the op.
ReadAsyncDrop(t) ==
    /\ At(t, "Read", "start")
    /\ async[Top(t).p]
    /\ stack' = [stack EXCEPT ![t] = Rest(t)]
    /\ rret' = [rret EXCEPT ![Top(t).p] = @ + 1]
    /\ UNCHANGED <<anim, subs0, subs, async, kind, readers, writer, spawned, calls, crashed,
                   rlog, hlog, hdone, ulog, count, wcnt, wdone, sigs, created, ret>>

\* p.async: `go p.op(...)` and return at once.
ReadAsync(t) ==
    /\ At(t, "Read", "start")
    /\ async[Top(t).p]
    /\ stack' = [stack EXCEPT ![t] = Rest(t), ![NextTask] = <<HandlerFrame(Top(t))>>]
    /\ spawned' = spawned + 1
    /\ rret' = [rret EXCEPT ![Top(t).p] = @ + 1]
    /\ UNCHANGED <<anim, subs0, subs, async, kind, readers, writer, calls, crashed, rlog,
                   hlog, hdone, ulog, count, wcnt, wdone, sigs, created, ret>>

\* ReadSync without the `return` of line 458: after p.op(ctxn, err, nil) the
\* call falls through to p.op(ctxn, nil, b).
ReadSyncFallThrough(t) ==
    /\ At(t, "Read", "start")
    /\ ~async[Top(t).p]
    /\ stack' = SetTop(t,
           IF IsError(Top(t).v)
           THEN <<HandlerFrame(Top(t)),
                  [HandlerFrame(Top(t)) EXCEPT !.v = Nil, !.d = Top(t).v],
                  [Top(t) EXCEPT !.pc = "ret"]>>
           ELSE <<HandlerFrame(Top(t)), [Top(t) EXCEPT !.pc = "ret"]>>)
    /\ UNCHANGED <<anim, subs0, subs, async, kind, readers, writer, spawned, calls, crashed,
                   rlog, rret, hlog, hdone, ulog, count, wcnt, wdone, sigs,
                   created, ret>>

\* Not async: p.op(...) is called inline.
ReadSync(t) ==
    /\ At(t, "Read", "start")
    /\ ~async[Top(t).p]
    /\ stack' = SetTop(t, <<HandlerFrame(Top(t)), [Top(t) EXCEPT !.pc = "ret"]>>)
    /\ UNCHANGED <<anim, subs0, subs, async, kind, readers, writer, spawned, calls, crashed,
                   rlog, rret, hlog, hdone, ulog, count, wcnt, wdone, sigs, created, ret>>

\* The inline call has returned: Read returns.
ReadReturn(t) ==
    /\ At(t, "Read", "ret")
    /\ stack' = SetTop(t, <<>>)
    /\ rret' = [rret EXCEPT ![Top(t).p] = @ + 1]
    /\ UNCHANGED <<anim, subs0, subs, async, kind, readers, writer, spawned, calls, crashed,
                   rlog, hlog, hdone, ulog, count, wcnt, wdone, sigs, created, ret>>

(***************************************************************************)
(* The handlers.  "H" is the canonical Handler of TestMousePosition        *)
(* (part_000 lines 22-30), "D" is WrapData(dh) (lines 347-355) with the    *)
(* DataHandler of BenchmarkNodes (part_000 lines 48-50), "E" is            *)
(* WrapError(dh) (lines 363-371) with an ErrorHandler that only records.   *)
(* ulog keeps the argument of every call of such a dh.                     *)
(***************************************************************************)
\* What the logs keep of an invocation (ctx, err, data): the error, or else the
\* data.
HandlerEntry(f) == IF f.v # Nil THEN f.v ELSE f.d

\* r.RW().Write(r, v) made by the frame f: the call is on f's surface, with
\* f's own Ctx.
SelfWrite(f, v) == WriteFrame(f.surface, f.carrier, f.surface, v)

\* The canonical handler: forward the error, or forward the data and count.
HandlerCanon(t) ==
    /\ At(t, "Handler", "start")
    /\ kind[Top(t).p] = "H"
    /\ LET f == Top(t)
           v == IF f.v # Nil THEN f.v ELSE f.d
       IN  /\ stack' = SetTop(t, <<SelfWrite(f, v),
                  [f EXCEPT !.pc = IF f.v # Nil THEN "ret" ELSE "count"]>>)
           /\ wcnt' = [wcnt EXCEPT ![f.surface] = @ + 1]
           /\ hlog' = [hlog EXCEPT ![f.p] = Append(@, HandlerEntry(f))]
    /\ UNCHANGED <<anim, subs0, subs, async, kind, readers, writer, spawned, calls, crashed,
                   rlog, rret, hdone, ulog, count, wdone, sigs, created, ret>>

\* atomic.AddInt64(&count, 1), and the handler returns.
HandlerCount(t) ==
    /\ At(t, "Handler", "count")
    /\ count' = [count EXCEPT ![Top(t).p] = @ + 1]
    /\ hdone' = [hdone EXCEPT ![Top(t).p] = @ + 1]
    /\ stack' = SetTop(t, <<>>)
    /\ UNCHANGED <<anim, subs0, subs, async, kind, readers, writer, spawned, calls, crashed,
                   rlog, rret, hlog, ulog, wcnt, wdone, sigs, created, ret>>

\* The invocation dh(m, x) a wrapper makes: dh runs with the wrapper's own Ctx.
DhFrame(fn, f) == [f EXCEPT !.fn = fn, !.pc = "start"]

\* WrapData with the two branches exchanged: dh(m, err) for an error,
\* m.RW().Write(m, data) for data.
HandlerWrapDataSwapped(t) ==
    /\ At(t, "Handler", "start")
    /\ kind[Top(t).p] = "D"
    /\ LET f == Top(t)
       IN  /\ hlog' = [hlog EXCEPT ![f.p] = Append(@, HandlerEntry(f))]
           /\ IF f.v = Nil
              THEN /\ stack' = SetTop(t, <<SelfWrite(f, f.d), [f EXCEPT !.pc = "ret"]>>)
                   /\ wcnt' = [wcnt EXCEPT ![f.surface] = @ + 1]
              ELSE /\ stack' = SetTop(t, <<DhFrame("DataHandler", [f EXCEPT !.d = f.v]),
                                           [f EXCEPT !.pc = "ret"]>>)
                   /\ UNCHANGED wcnt
    /\ UNCHANGED <<anim, subs0, subs, async, kind, readers, writer, spawned, calls, crashed,
                   rlog, rret, hdone, ulog, count, wdone, sigs, created, ret>>

\* WrapData: an error goes to m.RW().Write(m, err); data goes to dh(m, data).
HandlerWrapData(t) ==
    /\ At(t, "Handler", "start")
    /\ kind[Top(t).p] = "D"
    /\ LET f == Top(t)
       IN  /\ hlog' = [hlog EXCEPT ![f.p] = Append(@, HandlerEntry(f))]
           /\ IF f.v # Nil
              THEN /\ stack' = SetTop(t, <<SelfWrite(f, f.v), [f EXCEPT !.pc = "ret"]>>)
                   /\ wcnt' = [wcnt EXCEPT ![f.surface] = @ + 1]
              ELSE /\ stack' = SetTop(t, <<DhFrame("DataHandler", f),
                                           [f EXCEPT !.pc = "ret"]>>)
                   /\ UNCHANGED wcnt
    /\ UNCHANGED <<anim, subs0, subs, async, kind, readers, writer, spawned, calls, crashed,
                   rlog, rret, hdone, ulog, count, wdone, sigs, created, ret>>

\* The DataHandler of BenchmarkNodes: r.RW().Write(r, data).
DataHandlerCall(t) ==
    /\ At(t, "DataHandler", "start")
    /\ LET f == Top(t)
       IN  /\ stack' = SetTop(t, <<SelfWrite(f, f.d), [f EXCEPT !.pc = "ret"]>>)
           /\ wcnt' = [wcnt EXCEPT ![f.surface] = @ + 1]
           /\ ulog' = [ulog EXCEPT ![f.p] = Append(@, f.d)]
    /\ UNCHANGED <<anim, subs0, subs, async, kind, readers, writer, spawned, calls, crashed,
                   rlog, rret, hlog, hdone, count, wdone, sigs, created, ret>>

\* WrapError with the two branches exchanged: dh(m, err) when there is an
\* error, m.RW().Write(m, data) when there is none.
HandlerWrapErrorSwapped(t) ==
    /\ At(t, "Handler", "start")
    /\ kind[Top(t).p] = "E"
    /\ LET f == Top(t)
       IN  /\ hlog' = [hlog EXCEPT ![f.p] = Append(@, HandlerEntry(f))]
           /\ IF f.v # Nil
              THEN /\ stack' = SetTop(t, <<DhFrame("ErrorHandler", f),
                                           [f EXCEPT !.pc = "ret"]>>)
                   /\ UNCHANGED wcnt
              ELSE /\ stack' = SetTop(t, <<SelfWrite(f, f.d), [f EXCEPT !.pc = "ret"]>>)
                   /\ wcnt' = [wcnt EXCEPT ![f.surface] = @ + 1]
    /\ UNCHANGED <<anim, subs0, subs, async, kind, readers, writer, spawned, calls, crashed,
                   rlog, rret, hdone, ulog, count, wdone, sigs, created, ret>>

\* WrapError: no error goes to dh(m, err); an error goes to
\* m.RW().Write(m, data).
HandlerWrapError(t) ==
    /\ At(t, "Handler", "start")
    /\ kind[Top(t).p] = "E"
    /\ LET f == Top(t)
       IN  /\ hlog' = [hlog EXCEPT ![f.p] = Append(@, HandlerEntry(f))]
           /\ IF f.v = Nil
              THEN /\ stack' = SetTop(t, <<DhFrame("ErrorHandler", f),
                                           [f EXCEPT !.pc = "ret"]>>)
                   /\ UNCHANGED wcnt
              ELSE /\ stack' = SetTop(t, <<SelfWrite(f, f.d), [f EXCEPT !.pc = "ret"]>>)
                   /\ wcnt' = [wcnt EXCEPT ![f.surface] = @ + 1]
    /\ UNCHANGED <<anim, subs0, subs, async, kind, readers, writer, spawned, calls, crashed,
                   rlog, rret, hdone, ulog, count, wdone, sigs, created, ret>>

\* An ErrorHandler that records the error it is called with and returns.
ErrorHandlerCall(t) ==
    /\ At(t, "ErrorHandler", "start")
    /\ ulog' = [ulog EXCEPT ![Top(t).p] = Append(@, Top(t).v)]
    /\ stack' = SetTop(t, <<>>)
    /\ UNCHANGED <<anim, subs0, subs, async, kind, readers, writer, spawned, calls, crashed,
                   rlog, rret, hlog, hdone, count, wcnt, wdone, sigs, created, ret>>

\* The Write a DataHandler made has returned: the DataHandler returns.
DataHandlerReturn(t) ==
    /\ At(t, "DataHandler", "ret")
    /\ stack' = SetTop(t, <<>>)
    /\ UNCHANGED <<anim, subs0, subs, async, kind, readers, writer, spawned, calls, crashed,
                   rlog, rret, hlog, hdone, ulog, count, wcnt, wdone, sigs,
                   created, ret>>

\* The op returns.
HandlerReturn(t) ==
    /\ At(t, "Handler", "ret")
    /\ hdone' = [hdone EXCEPT ![Top(t).p] = @ + 1]
    /\ stack' = SetTop(t, <<>>)
    /\ UNCHANGED <<anim, subs0, subs, async, kind, readers, writer, spawned, calls, crashed,
                   rlog, rret, hlog, ulog, count, wcnt, wdone, sigs, created, ret>>

(***************************************************************************)
(* pub.Signal, lines 683-769, and pub.AsyncSignal, lines 591-678.          *)
(***************************************************************************)
IsSignal(t, pc) ==
    /\ ~crashed
    /\ ~Idle(t)
    /\ Top(t).fn \in {"Signal", "AsyncSignal"}
    /\ Top(t).pc = pc

\* The op of the node the type switch builds for a function argument.
KindOf(shape) ==
    CASE shape = "Handler" -> "H"
      [] shape = "ErrorHandler" -> "E"
      [] shape = "DataHandler" -> "D"
      [] OTHER -> "R"

\* A `case Node` that gave the node the mode of the method called.
SignalNodeMode(t) ==
    /\ IsSignal(t, "start")
    /\ Top(t).x.t = "Node"
    /\ async' = [async EXCEPT ![Top(t).x.id] = (Top(t).fn = "AsyncSignal")]
    /\ stack' = SetTop(t, <<[Top(t) EXCEPT !.pc = "lock", !.n = Top(t).x.id]>>)
    /\ UNCHANGED <<anim, subs0, subs, kind, readers, writer, spawned, calls, crashed,
                   rlog, rret, hlog, hdone, ulog, count, wcnt, wdone, sigs,
                   created, ret>>

\* case Node: n = node.(Node)
SignalNode(t) ==
    /\ IsSignal(t, "start")
    /\ Top(t).x.t = "Node"
    /\ stack' = SetTop(t, <<[Top(t) EXCEPT !.pc = "lock", !.n = Top(t).x.id]>>)
    /\ UNCHANGED <<anim, subs0, subs, async, kind, readers, writer, spawned, calls, crashed,
                   rlog, rret, hlog, hdone, ulog, count, wcnt, wdone, sigs,
                   created, ret>>

\* case Handler, ErrorHandler, DataHandler, and the default case when every
\* check passes: n = Sync(...) or ASync(...)
SignalWrap(t) ==
    /\ IsSignal(t, "start")
    /\ Top(t).x.t \in Accepted \/ (Top(t).x.t \in Others /\ Adapts(Top(t).x.t))
    /\ created' = created + 1
    /\ async' = [async EXCEPT ![created + 1] = (Top(t).fn = "AsyncSignal")]
    /\ kind' = [kind EXCEPT ![created + 1] = KindOf(Top(t).x.t)]
    /\ stack' = SetTop(t, <<[Top(t) EXCEPT !.pc = "lock", !.n = created + 1]>>)
    /\ UNCHANGED <<anim, subs0, subs, readers, writer, spawned, calls, crashed, rlog, rret,
                   hlog, hdone, ulog, count, wcnt, wdone, sigs, ret>>

\* default: the argument fails a check of the reflective adapter: return nil.
SignalReject(t) ==
    /\ IsSignal(t, "start")
    /\ Top(t).x.t \in Others
    /\ ~Adapts(Top(t).x.t)
    /\ stack' = SetTop(t, <<>>)
    /\ sigs' = sigs \cup {[fn |-> Top(t).fn, p |-> Top(t).p, x |-> Top(t).x,
                           n |-> Nil, at |-> 0]}
    /\ ret' = [ret EXCEPT ![t] = IF Len(stack[t]) = 1 THEN Nil ELSE @]
    /\ UNCHANGED <<anim, subs0, subs, async, kind, readers, writer, spawned, calls, crashed,
                   rlog, rret, hlog, hdone, ulog, count, wcnt, wdone, created>>

\* p.rw.Lock(), first half: take the writer slot.
SignalLock(t) ==
    /\ IsSignal(t, "lock")
    /\ CanLock(Top(t).p)
    /\ writer' = [writer EXCEPT ![Top(t).p] = t]
    /\ stack' = SetTop(t, <<[Top(t) EXCEPT !.pc = "wait"]>>)
    /\ UNCHANGED <<anim, subs0, subs, async, kind, readers, spawned, calls, crashed, rlog,
                   rret, hlog, hdone, ulog, count, wcnt, wdone, sigs, created,
                   ret>>

\* p.rw.Lock(), second half: the readers have left.
SignalWait(t) ==
    /\ IsSignal(t, "wait")
    /\ CanEnter(Top(t).p)
    /\ stack' = SetTop(t, <<[Top(t) EXCEPT !.pc = "append"]>>)
    /\ UNCHANGED <<anim, subs0, subs, async, kind, readers, writer, spawned, calls, crashed,
                   rlog, rret, hlog, hdone, ulog, count, wcnt, wdone, sigs,
                   created, ret>>

\* The list with n put in front of it.
Prepended(list, n) == <<n>> \o list

\* append(list, n)
Appended(list, n) == Append(list, n)

\* p.subs = append(p.subs, n), first half: the operand p.subs is read.
SignalAppend(t) ==
    /\ IsSignal(t, "append")
    /\ stack' = SetTop(t, <<[Top(t) EXCEPT !.pc = "store", !.rng = subs[Top(t).p]]>>)
    /\ UNCHANGED <<anim, subs0, subs, async, kind, readers, writer, spawned, calls, crashed,
                   rlog, rret, hlog, hdone, ulog, count, wcnt, wdone, sigs,
                   created, ret>>

\* A store of a list that holds the new node alone: p.subs = []Node{n}.
SignalStoreAlone(t) ==
    /\ IsSignal(t, "store")
    /\ subs' = [subs EXCEPT ![Top(t).p] = <<Top(t).n>>]
    /\ stack' = SetTop(t, <<[Top(t) EXCEPT !.pc = "unlock"]>>)
    /\ UNCHANGED <<anim, subs0, async, kind, readers, writer, spawned, calls, crashed, rlog,
                   rret, hlog, hdone, ulog, count, wcnt, wdone, sigs, created,
                   ret>>

\* p.subs = append(p.subs, n), second half: the new slice is stored in p.subs.
SignalStore(t) ==
    /\ IsSignal(t, "store")
    /\ subs' = [subs EXCEPT ![Top(t).p] = Appended(Top(t).rng, Top(t).n)]
    /\ stack' = SetTop(t, <<[Top(t) EXCEPT !.pc = "unlock"]>>)
    /\ UNCHANGED <<anim, subs0, async, kind, readers, writer, spawned, calls, crashed, rlog,
                   rret, hlog, hdone, ulog, count, wcnt, wdone, sigs, created,
                   ret>>

\* p.rw.Unlock(); return n
SignalUnlock(t) ==
    /\ IsSignal(t, "unlock")
    /\ writer' = [writer EXCEPT ![Top(t).p] = 0]
    /\ stack' = SetTop(t, <<>>)
    /\ sigs' = sigs \cup {[fn |-> Top(t).fn, p |-> Top(t).p, x |-> Top(t).x,
                           n |-> Top(t).n, at |-> Len(subs[Top(t).p])]}
    /\ ret' = [ret EXCEPT ![t] = IF Len(stack[t]) = 1 THEN Top(t).n ELSE @]
    /\ UNCHANGED <<anim, subs0, subs, async, kind, readers, spawned, calls, crashed, rlog,
                   rret, hlog, hdone, ulog, count, wcnt, wdone, created>>

(***************************************************************************)
(* Lift, lines 775-787, and DeLift, lines 791-804.  Go slices count from   *)
(* 0: rws[k] is lst[k + 1].                                                *)
(***************************************************************************)
SignalFrame(p, x) ==
    [NewFrame("Signal", "start", p, Nil, Nil, Nil, Nil) EXCEPT !.x = x]

\* index < 1: continue
LiftSkip(t) ==
    /\ At(t, "Lift", "loop")
    /\ Top(t).i < Len(Top(t).lst)
    /\ Top(t).i < 1
    /\ stack' = SetTop(t, <<[Top(t) EXCEPT !.i = @ + 1]>>)
    /\ UNCHANGED <<anim, subs0, subs, async, kind, readers, writer, spawned, calls, crashed,
                   rlog, rret, hlog, hdone, ulog, count, wcnt, wdone, sigs,
                   created, ret>>

\* A Lift that chained the previous node to the next one: node.Signal(pnode).
LiftSignalInverse(t) ==
    /\ At(t, "Lift", "loop")
    /\ Top(t).i < Len(Top(t).lst)
    /\ ~(Top(t).i < 1)
    /\ LET f == Top(t)
           node == f.lst[f.i + 1]
           pnode == f.lst[f.i]
       IN  stack' = SetTop(t, <<SignalFrame(node, NodeArg(pnode)),
                                [f EXCEPT !.i = @ + 1]>>)
    /\ UNCHANGED <<anim, subs0, subs, async, kind, readers, writer, spawned, calls, crashed,
                   rlog, rret, hlog, hdone, ulog, count, wcnt, wdone, sigs,
                   created, ret>>

\* node := rws[index]; pnode := rws[index-1]; pnode.Signal(node)
LiftSignal(t) ==
    /\ At(t, "Lift", "loop")
    /\ Top(t).i < Len(Top(t).lst)
    /\ ~(Top(t).i < 1)
    /\ LET f == Top(t)
           node == f.lst[f.i + 1]
           pnode == f.lst[f.i]
       IN  stack' = SetTop(t, <<SignalFrame(pnode, NodeArg(node)),
                                [f EXCEPT !.i = @ + 1]>>)
    /\ UNCHANGED <<anim, subs0, subs, async, kind, readers, writer, spawned, calls, crashed,
                   rlog, rret, hlog, hdone, ulog, count, wcnt, wdone, sigs,
                   created, ret>>

LiftReturn(t) ==
    /\ At(t, "Lift", "loop")
    /\ Top(t).i >= Len(Top(t).lst)
    /\ stack' = SetTop(t, <<>>)
    /\ UNCHANGED <<anim, subs0, subs, async, kind, readers, writer, spawned, calls, crashed,
                   rlog, rret, hlog, hdone, ulog, count, wcnt, wdone, sigs,
                   created, ret>>

\* index >= rwsLen-1: continue
DeLiftSkip(t) ==
    /\ At(t, "DeLift", "loop")
    /\ Top(t).i >= 0
    /\ Top(t).i >= Len(Top(t).lst) - 1
    /\ stack' = SetTop(t, <<[Top(t) EXCEPT !.i = @ - 1]>>)
    /\ UNCHANGED <<anim, subs0, subs, async, kind, readers, writer, spawned, calls, crashed,
                   rlog, rret, hlog, hdone, ulog, count, wcnt, wdone, sigs,
                   created, ret>>

\* pnode := rws[index]; node := rws[index-1]; pnode.Signal(node).
\* rws[index-1] with index = 0 is an index out of range: a run-time panic.
DeLiftSignal(t) ==
    /\ At(t, "DeLift", "loop")
    /\ Top(t).i >= 0
    /\ ~(Top(t).i >= Len(Top(t).lst) - 1)
    /\ LET f == Top(t)
       IN  IF f.i - 1 >= 0
           THEN /\ stack' = SetTop(t, <<SignalFrame(f.lst[f.i + 1], NodeArg(f.lst[f.i])),
                                        [f EXCEPT !.i = @ - 1]>>)
                /\ UNCHANGED crashed
           ELSE /\ crashed' = TRUE
                /\ UNCHANGED stack
    /\ UNCHANGED <<anim, subs0, subs, async, kind, readers, writer, spawned, calls, rlog,
                   rret, hlog, hdone, ulog, count, wcnt, wdone, sigs, created,
                   ret>>

DeLiftReturn(t) ==
    /\ At(t, "DeLift", "loop")
    /\ Top(t).i < 0
    /\ stack' = SetTop(t, <<>>)
    /\ UNCHANGED <<anim, subs0, subs, async, kind, readers, writer, spawned, calls, crashed,
                   rlog, rret, hlog, hdone, ulog, count, wcnt, wdone, sigs,
                   created, ret>>

(***************************************************************************)
(* The callers: a caller that is not inside a call makes the next one.     *)
(***************************************************************************)
CanCall(t) == ~crashed /\ t \in Callers /\ Idle(t)

\* The carrier Read uses: ctxs[0], or context.New() when len(ctxs) < 1.
ReadCarrier(ctxs) == IF Len(ctxs) < 1 THEN NewCtx ELSE ctxs[1]

\* p.Read(b, ctxs...)
CallRead(t, p, b, ctxs) ==
    /\ CanCall(t)
    /\ p \in 1..created
    /\ stack' = [stack EXCEPT ![t] =
           <<[NewFrame("Read", "start", p, b, Nil, ReadCarrier(ctxs), Nil)
                 EXCEPT !.lst = ctxs]>>]
    /\ rlog' = [rlog EXCEPT ![p] = Append(@, b)]
    /\ calls' = calls + 1
    /\ UNCHANGED <<anim, subs0, subs, async, kind, readers, writer, spawned, crashed, rret,
                   hlog, hdone, ulog, count, wcnt, wdone, sigs, created, ret>>

\* p.Write(ctx, v) with a Ctx of the caller's own: carrier c, no pub surface.
CallWrite(t, p, c, v) ==
    /\ CanCall(t)
    /\ p \in 1..created
    /\ stack' = [stack EXCEPT ![t] = <<WriteFrame(p, c, Nil, v)>>]
    /\ wcnt' = [wcnt EXCEPT ![p] = @ + 1]
    /\ calls' = calls + 1
    /\ UNCHANGED <<anim, subs0, subs, async, kind, readers, writer, spawned, crashed, rlog,
                   rret, hlog, hdone, ulog, count, wdone, sigs, created, ret>>

\* p.WriteEvery(ctx, v, finder)
CallWriteEvery(t, p, c, v, fd) ==
    /\ CanCall(t)
    /\ p \in 1..created
    /\ stack' = [stack EXCEPT ![t] =
           <<[NewFrame("WriteEvery", "len", p, v, Nil, c, Nil) EXCEPT !.finder = fd]>>]
    /\ calls' = calls + 1
    /\ UNCHANGED <<anim, subs0, subs, async, kind, readers, writer, spawned, crashed, rlog,
                   rret, hlog, hdone, ulog, count, wcnt, wdone, sigs, created,
                   ret>>

\* p.Signal(x) or p.AsyncSignal(x)
CallSignal(t, fn, p, x) ==
    /\ CanCall(t)
    /\ p \in 1..created
    /\ x.t = "Node" => x.id \in 1..created
    /\ stack' = [stack EXCEPT ![t] = <<[SignalFrame(p, x) EXCEPT !.fn = fn]>>]
    /\ calls' = calls + 1
    /\ UNCHANGED <<anim, subs0, subs, async, kind, readers, writer, spawned, crashed, rlog,
                   rret, hlog, hdone, ulog, count, wcnt, wdone, sigs, created,
                   ret>>

\* Lift(rws...): the loop starts at index 0.
CallLift(t, rws) ==
    /\ CanCall(t)
    /\ stack' = [stack EXCEPT ![t] =
           <<[NewFrame("Lift", "loop", Nil, Nil, Nil, Nil, Nil) EXCEPT !.lst = rws]>>]
    /\ calls' = calls + 1
    /\ UNCHANGED <<anim, subs0, subs, async, kind, readers, writer, spawned, crashed, rlog,
                   rret, hlog, hdone, ulog, count, wcnt, wdone, sigs, created,
                   ret>>

\* DeLift(rws...): the loop starts at index rwsLen - 1.
CallDeLift(t, rws) ==
    /\ CanCall(t)
    /\ stack' = [stack EXCEPT ![t] =
           <<[NewFrame("DeLift", "loop", Nil, Nil, Nil, Nil, Nil)
                 EXCEPT !.lst = rws, !.i = Len(rws) - 1]>>]
    /\ calls' = calls + 1
    /\ UNCHANGED <<anim, subs0, subs, async, kind, readers, writer, spawned, crashed, rlog,
                   rret, hlog, hdone, ulog, count, wcnt, wdone, sigs, created,
                   ret>>

(***************************************************************************)
(* Construction: Sync, ASync, DSync, DASync (lines 319-394) and the same   *)
(* two constructors around WrapError.  Which op and which mode a node has  *)
(* matters only to Read on that node, so the initial states give node n    *)
(* the (k + n)-th of the six combinations, for every k.                    *)
(***************************************************************************)
Ctors ==
    <<[async |-> FALSE, kind |-> "H"], [async |-> TRUE, kind |-> "H"],
      [async |-> FALSE, kind |-> "D"], [async |-> TRUE, kind |-> "D"],
      [async |-> FALSE, kind |-> "E"], [async |-> TRUE, kind |-> "E"]>>

CtorOf(k, n) == Ctors[((k + n) % Len(Ctors)) + 1]

\* The nodes just constructed, with the k-th assignment of constructors.
InitCtors(k) ==
    /\ async = [n \in AllNodes |-> n \in Nodes /\ CtorOf(k, n).async]
    /\ kind = [n \in AllNodes |-> IF n \in Nodes THEN CtorOf(k, n).kind ELSE "H"]

\* Every node built by Sync with a canonical handler.
InitSync ==
    /\ async = [n \in AllNodes |-> FALSE]
    /\ kind = [n \in AllNodes |-> "H"]

\* No AnimationSequence is built.
NoFrame ==
    [variant |-> 0, loop |-> FALSE, totalLoops |-> 0, optimized |-> FALSE,
     inited |-> 0, done |-> 0, completedFrame |-> 0, writesOn |-> 0,
     totalCycles |-> 0, lastCycle |-> 0, begun |-> 0, ended |-> 0,
     progressed |-> 0, nexts |-> 0, stored |-> 0, endCalls |-> 0,
     out |-> "none", over |-> "none", steps |-> 0]

\* No lock held, no task running, nothing called.
InitNodes ==
    /\ created = NumNodes
    /\ readers = [n \in AllNodes |-> 0]
    /\ writer = [n \in AllNodes |-> 0]
    /\ stack = [t \in Tasks |-> <<>>]
    /\ spawned = 0
    /\ calls = 0
    /\ crashed = FALSE
    /\ rlog = [n \in AllNodes |-> <<>>]
    /\ rret = [n \in AllNodes |-> 0]
    /\ hlog = [n \in AllNodes |-> <<>>]
    /\ hdone = [n \in AllNodes |-> 0]
    /\ ulog = [n \in AllNodes |-> <<>>]
    /\ count = [n \in AllNodes |-> 0]
    /\ wcnt = [n \in AllNodes |-> 0]
    /\ wdone = {}
    /\ sigs = {}
    /\ ret = [t \in Tasks |-> Nil]

\* The subscriber lists left by 1.Signal(2), 1.Signal(3), ...: node 1 has every
\* other node as a subscriber, in order, and they have none.
Star ==
    [n \in AllNodes |-> IF n = 1 THEN [k \in 1..(NumNodes - 1) |-> k + 1] ELSE <<>>]

(***************************************************************************)
(* Spec: one caller makes calls one after another on the nodes of Star:    *)
(* Read on any node, Write and WriteEvery (with no finder) on a node that  *)
(* has subscribers.  The goroutines of the asynchronous nodes run beside   *)
(* it.                                                                     *)
(***************************************************************************)
Init ==
    /\ InitNodes
    /\ anim = NoFrame
    /\ \E k \in 1..Len(Ctors) : InitCtors(k)
    /\ subs = Star
    /\ subs0 = subs

Run(t) ==
    \/ ReadAsync(t) \/ ReadSync(t) \/ ReadReturn(t)
    \/ HandlerCanon(t) \/ HandlerCount(t) \/ HandlerWrapData(t)
    \/ HandlerWrapError(t) \/ HandlerReturn(t)
    \/ DataHandlerCall(t) \/ DataHandlerReturn(t) \/ ErrorHandlerCall(t)
    \/ WriteRLock(t) \/ WriteLoop(t) \/ WriteRUnlock(t)
    \/ WriteEveryLen(t) \/ WriteEveryRLock(t) \/ WriteEveryForward(t)
    \/ WriteEverySkip(t) \/ WriteEveryRUnlock(t)

Next ==
    \/ \E p \in AllNodes, b \in Values, ctxs \in {NoCtx} :
          calls < MaxCalls /\ CallRead(1, p, b, ctxs)
    \/ \E p \in AllNodes, c \in Carriers, v \in Values :
          calls < MaxCalls /\ subs[p] # <<>> /\ CallWrite(1, p, c, v)
    \/ \E p \in AllNodes, c \in Carriers, v \in Values :
          calls < MaxCalls /\ subs[p] # <<>> /\ CallWriteEvery(1, p, c, v, "nil")
    \/ \E t \in Tasks : Run(t)

Spec == Init /\ [][Next]_vars

(***************************************************************************)
(* Properties of Read, Write and the handlers, checked under Spec.         *)
(***************************************************************************)
IsPrefix(a, b) == Len(a) <= Len(b) /\ \A k \in 1..Len(a) : a[k] = b[k]

\* The place <<t, k>> of every frame: the k-th frame of task t, called from
\* the (k+1)-th.
FramesAt == UNION {{<<t, k>> : k \in 1..Len(stack[t])} : t \in Tasks}

\* C1: on a synchronous node, Read calls made one after another invoke the
\* handler once each, the k-th invocation with the k-th value, and every
\* invocation has returned before its Read returns: whenever the caller is
\* between calls, the handler has run and returned as often as Read was called.
C1_SyncReadsInvokeInOrder ==
    \A n \in AllNodes : ~async[n] =>
        /\ IsPrefix(hlog[n], rlog[n])
        /\ rret[n] <= hdone[n]
        /\ hdone[n] <= Len(hlog[n])
        /\ Len(rlog[n]) <= rret[n] + 1
        /\ (\A t \in Callers : Idle(t)) =>
              /\ Len(hlog[n]) = Len(rlog[n])
              /\ hdone[n] = Len(rlog[n])
              /\ rret[n] = Len(rlog[n])

\* Two Read calls with different values on a synchronous node have returned.
C1_Witness ==
    \E n \in Nodes :
        /\ ~async[n]
        /\ rret[n] = 2
        /\ hdone[n] = 2
        /\ rlog[n][1] # rlog[n][2]

\* The part of a subscriber list a Write has forwarded to, as its `sent`.
SentOf(list, v, upto) == [k \in 1..upto |-> [n |-> list[k], v |-> v, pos |-> k - 1]]

\* C2: a Write(ctx, v) on a node with subscribers s1..sk invokes the Write of
\* s1, s2, ..., sk, in that order, once each and with v; and when the handler
\* of a synchronous node forwards what it received, every Read(v) that has
\* returned has had such a Write completed.
C2_WriteReachesEverySubscriber ==
    /\ \A w \in wdone : w.fn = "Write" =>
          /\ w.list = subs[w.p]
          /\ w.sent = SentOf(w.list, w.v, Len(w.list))
    /\ \A <<t, k>> \in FramesAt :
          LET f == stack[t][k]
          IN  (f.fn = "Write" /\ f.pc = "loop") =>
                /\ f.rng = subs[f.p]
                /\ f.sent = SentOf(f.rng, f.v, f.i)
                /\ k > 1 =>
                      /\ f.i >= 1
                      /\ stack[t][k - 1].fn = "Write"
                      /\ stack[t][k - 1].p = f.rng[f.i]
                      /\ stack[t][k - 1].v = f.v
    /\ \A n \in Nodes : (~async[n] /\ kind[n] \in {"H", "D"}) =>
          \A k \in 1..rret[n] :
              \E w \in wdone :
                  /\ w.fn = "Write"
                  /\ w.p = n
                  /\ w.v = rlog[n][k]
                  /\ Len(w.sent) = Len(subs[n])

\* Read(v) has returned on a synchronous node with two subscribers or more,
\* whose handler forwarded v to each of them.
C2_Witness ==
    \E n \in Nodes :
        /\ ~async[n]
        /\ kind[n] = "H"
        /\ rret[n] >= 1
        /\ Len(subs[n]) >= 2
        /\ \E w \in wdone : w.p = n /\ w.v = rlog[n][1] /\ Len(w.sent) >= 2

C7_AsyncReadDoesNotWait ==
    /\ \A n \in AllNodes : ~async[n] => rret[n] <= hdone[n]
    /\ \A <<t, k>> \in FramesAt :
          (stack[t][k].fn = "Read" /\ async[stack[t][k].p]) =>
             /\ k = 1
             /\ stack[t][k].pc = "start"
             /\ ENABLED ReadAsync(t)

\* Two Read calls on an asynchronous node have returned; the handler of the
\* second has run and the handler of the first has not started.
C7_Witness ==
    \E n \in Nodes :
        /\ async[n]
        /\ rret[n] = 2
        /\ rlog[n][1] # rlog[n][2]
        /\ hlog[n] = <<rlog[n][2]>>
        /\ hdone[n] = 1

(***************************************************************************)
(* SpecWrite: one caller makes one Write or WriteEvery call on a node of a *)
(* graph that earlier Signal calls built: node 1 has any list of up to     *)
(* MaxList later nodes as subscribers (a node may be registered twice),    *)
(* and every other node has the next node as its subscriber.               *)
(***************************************************************************)
\* Every sequence over S of length at most n.
SeqsUpTo(S, n) == UNION {[1..k -> S] : k \in 0..n}

Chains(first) ==
    [n \in AllNodes |->
        IF n = 1 THEN first
        ELSE IF n \in Nodes /\ n + 1 \in Nodes THEN <<n + 1>> ELSE <<>>]

InitWrite ==
    /\ InitNodes
    /\ anim = NoFrame
    /\ InitSync
    /\ \E first \in SeqsUpTo(Nodes \ {1}, MaxList) : subs = Chains(first)
    /\ subs0 = subs

RunWrite(t) ==
    \/ WriteRLock(t) \/ WriteLoop(t) \/ WriteRUnlock(t)
    \/ WriteEveryLen(t) \/ WriteEveryRLock(t) \/ WriteEveryForward(t)
    \/ WriteEverySkip(t) \/ WriteEveryRUnlock(t)

NextWrite ==
    \/ \E p \in Nodes, c \in Carriers, v \in Values :
          calls = 0 /\ CallWrite(1, p, c, v)
    \/ \E p \in Nodes, c \in Carriers, v \in Values, fd \in Finders :
          calls = 0 /\ CallWriteEvery(1, p, c, v, fd)
    \/ \E t \in Callers : RunWrite(t)

SpecWrite == InitWrite /\ [][NextWrite]_vars

\* What WriteEvery with no finder forwards on a list of n subscribers: the
\* entries at positions 1..n-1, in order.
SentFromOne(list, v, n) ==
    [k \in 1..(IF n > 1 THEN n - 1 ELSE 0) |-> [n |-> list[k + 1], v |-> v, pos |-> k]]

NoSubs == [n \in AllNodes |-> <<>>]

InitLift ==
    /\ InitNodes
    /\ anim = NoFrame
    /\ InitSync
    /\ subs \in {NoSubs, Star}
    /\ subs0 = subs

RunLift(t) ==
    \/ LiftSkip(t) \/ LiftSignal(t) \/ LiftReturn(t)
    \/ DeLiftSkip(t) \/ DeLiftSignal(t) \/ DeLiftReturn(t)
    \/ SignalNode(t) \/ SignalLock(t) \/ SignalWait(t)
    \/ SignalAppend(t) \/ SignalStore(t) \/ SignalUnlock(t)

NextLift ==
    \/ \E rws \in SeqsUpTo(Nodes, MaxList) : calls = 0 /\ CallLift(1, rws)
    \/ \E rws \in SeqsUpTo(Nodes, MaxList) : calls = 0 /\ CallDeLift(1, rws)
    \/ \E t \in Callers : RunLift(t)

SpecLift == InitLift /\ [][NextLift]_vars

\* What a forward chain over the first m nodes of rws adds to the list of n:
\* rws[k] for every k in 2..m with rws[k-1] = n, in increasing k.
RECURSIVE LiftAdds(_, _, _)
LiftAdds(n, rws, m) ==
    IF m < 2 THEN <<>>
    ELSE LiftAdds(n, rws, m - 1) \o (IF rws[m - 1] = n THEN <<rws[m]>> ELSE <<>>)

\* What a backward chain over the nodes of rws from the m-th on adds to the
\* list of n: rws[k-1] for every k from Len(rws) down to m with k >= 2 and
\* rws[k] = n, in decreasing k.
RECURSIVE DeLiftAdds(_, _, _)
DeLiftAdds(n, rws, m) ==
    IF m > Len(rws) THEN <<>>
    ELSE DeLiftAdds(n, rws, m + 1)
            \o (IF m >= 2 /\ rws[m] = n THEN <<rws[m - 1]>> ELSE <<>>)

\* C8: Lift(nodes...) registers nodes[i] as a subscriber of nodes[i-1] for i
\* from 1 to N-1 in increasing order, one append at the end of the list each,
\* and changes nothing else; with N < 2 it registers nothing.  Between two
\* registrations, and when the loop is over, every list is the list before the
\* call followed by the registrations made so far.
C8_LiftChainsForward ==
    /\ \A t \in Callers :
          (~Idle(t) /\ Top(t).fn = "Lift") =>
              /\ ~crashed
              /\ \A n \in AllNodes :
                    subs[n] = subs0[n] \o LiftAdds(n, Top(t).lst, Top(t).i)
              /\ created = NumNodes
              /\ Len(Top(t).lst) < 2 => subs = subs0
    /\ \A <<t, k>> \in FramesAt :
          (k > 1 /\ stack[t][k].fn = "Lift") =>
              LET f == stack[t][k]
                  g == stack[t][k - 1]
              IN  /\ g.fn = "Signal"
                  /\ f.i >= 2
                  /\ g.p = f.lst[f.i - 1]
                  /\ g.x = NodeArg(f.lst[f.i])

\* Lift(a, b, c) with three different nodes is over: b is the last subscriber
\* of a, c the last subscriber of b, and c's list is as it was.
C8_Witness ==
    \E t \in Callers :
        /\ ~Idle(t)
        /\ Top(t).fn = "Lift"
        /\ Top(t).i = 3
        /\ Len(Top(t).lst) = 3
        /\ Cardinality({Top(t).lst[k] : k \in 1..3}) = 3
        /\ subs[Top(t).lst[1]] = Append(subs0[Top(t).lst[1]], Top(t).lst[2])
        /\ subs[Top(t).lst[2]] = Append(subs0[Top(t).lst[2]], Top(t).lst[3])
        /\ subs[Top(t).lst[3]] = subs0[Top(t).lst[3]]
        /\ subs0[Top(t).lst[1]] # <<>>

\* C9: DeLift(nodes...) completes normally for every N and, walking i from N-1
\* down to 1, registers nodes[i-1] as a subscriber of nodes[i] once each and
\* changes nothing else: the program never panics in it, and when its loop is
\* over every list is the list before the call followed by the backward chain.
C9_DeLiftChainsBackward ==
    /\ ~crashed
    /\ \A t \in Callers :
          (~Idle(t) /\ Top(t).fn = "DeLift" /\ Top(t).i < 0) =>
              \A n \in AllNodes :
                  subs[n] = subs0[n] \o DeLiftAdds(n, Top(t).lst, 1)

(***************************************************************************)
(* SpecConc: the callers run beside each other, each making one call on    *)
(* node 1, which has node 2 as its subscriber: Signal or AsyncSignal with  *)
(* node 2 or node 3, or Write.  The callers are interchangeable, so caller *)
(* t is the one that makes the t-th call.                                  *)
(***************************************************************************)
\* The subscriber lists left by 1.Signal(2).
One == [n \in AllNodes |-> IF n = 1 THEN <<2>> ELSE <<>>]

\* The nodes the callers register on node 1.
Registrable == {2, 3}

InitConc ==
    /\ InitNodes
    /\ anim = NoFrame
    /\ InitSync
    /\ subs = One
    /\ subs0 = subs

RunConc(t) ==
    \/ SignalNode(t) \/ SignalLock(t) \/ SignalWait(t)
    \/ SignalAppend(t) \/ SignalStore(t) \/ SignalUnlock(t)
    \/ WriteRLock(t) \/ WriteLoop(t) \/ WriteRUnlock(t)

NextConc ==
    \/ \E t \in Callers, fn \in {"Signal", "AsyncSignal"}, m \in Registrable :
          t = calls + 1 /\ CallSignal(t, fn, 1, NodeArg(m))
    \/ \E t \in Callers, c \in Carriers, v \in Payloads :
          t = calls + 1 /\ CallWrite(t, 1, c, v)
    \/ \E t \in Callers : RunConc(t)

SpecConc == InitConc /\ [][NextConc]_vars

\* How often node m is in a list.
Count(m, list) == Cardinality({k \in 1..Len(list) : list[k] = m})

\* The tasks inside the locked section of a registration on node n, and the
\* frames of a Write inside the fan-out loop of node n.
Appending(n) ==
    {t \in Tasks : ~Idle(t) /\ Top(t).fn \in {"Signal", "AsyncSignal"}
                      /\ Top(t).p = n /\ Top(t).pc \in {"append", "store", "unlock"}}

Iterating(n) ==
    {tk \in FramesAt : LET f == stack[tk[1]][tk[2]]
                       IN  f.fn = "Write" /\ f.p = n /\ f.pc = "loop"}

\* The registrations on node 1 called so far: every call of SpecConc is a
\* registration on node 1 or a Write on node 1, and wcnt[1] counts the latter.
Registered == calls - wcnt[1]

\* C4: once M registrations and any number of Write calls that ran beside each
\* other on a node have all returned, the node's subscriber list is the
\* original list, unchanged and in place, followed by M more entries, and it
\* holds every node as often as before plus once per registration of it; the
\* original entries keep their places in every state on the way.
C4_ConcurrentRegistrationsKeepList ==
    /\ IsPrefix(subs0[1], subs[1])
    /\ \A n \in AllNodes \ {1} : subs[n] = subs0[n]
    /\ (\A t \in Tasks : Idle(t)) =>
          /\ Len(subs[1]) = Len(subs0[1]) + Registered
          /\ \A m \in AllNodes :
                Count(m, subs[1]) =
                    Count(m, subs0[1]) + Cardinality({g \in sigs : g.p = 1 /\ g.n = m})

\* Two registrations and a Write have returned, and the Write ran between the
\* two registrations: it saw the original list and one entry more.
C4_Witness ==
    /\ \A t \in Tasks : Idle(t)
    /\ Registered = 2
    /\ Len(subs[1]) = Len(subs0[1]) + 2
    /\ \E w \in wdone : w.p = 1 /\ w.nlen = Len(subs0[1]) + 1

\* C5: on one node, no registration is inside its locked section (reading the
\* list, storing the longer list, about to unlock) while a Write iterates the
\* list or while another registration is inside its own; a registration that
\* waits while a Write holds the read lock cannot go on, and a Write that
\* arrives while a registration holds or awaits the lock cannot take it.
C5_RegistrationExcludesFanOut ==
    \A n \in AllNodes :
        /\ Cardinality(Appending(n)) <= 1
        /\ Appending(n) # {} => (Iterating(n) = {} /\ readers[n] = 0)
        /\ \A t \in Tasks :
              /\ (IsSignal(t, "wait") /\ Top(t).p = n /\ Iterating(n) # {})
                    => ~ENABLED SignalWait(t)
              /\ (At(t, "Write", "rlock") /\ Top(t).p = n /\ Appending(n) # {})
                    => ~ENABLED WriteRLock(t)

\* A registration waits for the lock while a Write is inside the loop of the
\* same node.
C5_Witness ==
    \E t \in Tasks :
        /\ IsSignal(t, "wait")
        /\ Iterating(Top(t).p) # {}
        /\ writer[Top(t).p] = t

\* C6: a Write that arrives at a node on which no registration holds or awaits
\* the lock can take the read lock and enter the loop, however many Write calls
\* are inside the loop of that node.
C6_WritesDoNotExclude ==
    \A t \in Tasks :
        (At(t, "Write", "rlock") /\ writer[Top(t).p] = 0) => ENABLED WriteRLock(t)

\* Two callers are inside the fan-out loop of node 1 at the same time, and a
\* third is about to enter it.
C6_Witness ==
    /\ \E t, u \in Callers :
          /\ t # u
          /\ <<t, Len(stack[t])>> \in Iterating(1)
          /\ <<u, Len(stack[u])>> \in Iterating(1)
    /\ readers[1] >= 2
    /\ \E t \in Callers : At(t, "Write", "rlock") /\ Top(t).p = 1

\* C11: for every finder and every N, WriteEvery visits the positions 0..N-1 in
\* order, forwards for position i only when 0 < finder(i, N) < N, and never
\* invokes the Write of the subscriber stored at position 0.
C11_PositionZeroNeverTarget ==
    /\ \A w \in wdone : w.fn = "WriteEvery" =>
          \A j \in 1..Len(w.sent) :
              /\ InBounds(Find(w.finder, w.sent[j].pos, w.nlen), w.nlen)
              /\ w.sent[j].pos # 0
    /\ \A <<t, k>> \in FramesAt :
          LET f == stack[t][k]
          IN  f.fn = "WriteEvery" =>
                \A j \in 1..Len(f.sent) :
                    /\ InBounds(Find(f.finder, f.sent[j].pos, f.nlen), f.nlen)
                    /\ f.sent[j].pos # 0

\* C12: Read(b) invokes the node's op once per call, with (ctx, b, nil) when b
\* is an error and with (ctx, nil, b) otherwise, never with both an error and
\* a payload, on synchronous and on asynchronous nodes alike: every invocation
\* carries one of the two, of the right class; an inline invocation carries the
\* classification of the Read below it; the node's invocations so far are among
\* its Read calls, and they are all of them once every task has returned.
C12_ReadClassifiesOnce ==
    /\ \A <<t, k>> \in FramesAt :
          LET f == stack[t][k]
          IN  f.fn = "Handler" =>
                /\ f.v = Nil \/ f.d = Nil
                /\ f.v # Nil => IsError(f.v)
                /\ f.d # Nil => ~IsError(f.d)
                /\ (k < Len(stack[t]) /\ stack[t][k + 1].fn = "Read") =>
                      /\ f.v = (IF IsError(stack[t][k + 1].v) THEN stack[t][k + 1].v ELSE Nil)
                      /\ f.d = (IF IsError(stack[t][k + 1].v) THEN Nil ELSE stack[t][k + 1].v)
                      /\ ~async[f.p]
                /\ (k = Len(stack[t]) /\ t \notin Callers) => async[f.p]
    /\ \A p \in AllNodes, x \in Values :
          /\ Count(x, hlog[p]) <= Count(x, rlog[p])
          /\ (\A t \in Tasks : Idle(t)) => Count(x, hlog[p]) = Count(x, rlog[p])

\* Every task has returned after a Read of an error on an asynchronous node
\* and a Read of a payload on a synchronous one, each handled once.
C12_Witness ==
    /\ \A t \in Tasks : Idle(t)
    /\ \E p, q \in Nodes :
          /\ async[p] /\ rlog[p] = <<-1>> /\ hlog[p] = <<-1>>
          /\ ~async[q] /\ rlog[q] = <<1>> /\ hlog[q] = <<1>>

\* The frame a frame called, when it has called one.
Callee(t, k) == stack[t][k - 1]

\* C13: on a node built from a data-only handler, the op given an error never
\* invokes the data-only handler: it calls Write on the same node with that
\* error, which every subscriber's Write then receives; given data it invokes
\* the data-only handler once with that data and calls no Write of its own.
C13_DataOnlyForwardsErrors ==
    /\ \A <<t, k>> \in FramesAt :
          LET f == stack[t][k]
          IN  /\ (f.fn = "Handler" /\ kind[f.p] = "D" /\ k > 1) =>
                    IF f.v # Nil
                    THEN /\ Callee(t, k).fn = "Write"
                         /\ Callee(t, k).p = f.p
                         /\ Callee(t, k).v = f.v
                    ELSE /\ Callee(t, k).fn = "DataHandler"
                         /\ Callee(t, k).p = f.p
                         /\ Callee(t, k).d = f.d
              /\ f.fn = "DataHandler" =>
                    /\ k < Len(stack[t])
                    /\ stack[t][k + 1].fn = "Handler"
                    /\ stack[t][k + 1].v = Nil
                    /\ f.v = Nil
                    /\ ~IsError(f.d)
    /\ \A p \in AllNodes : kind[p] = "D" =>
          /\ \A x \in Errors : Count(x, ulog[p]) = 0
          /\ \A x \in Payloads :
                /\ Count(x, ulog[p]) <= Count(x, hlog[p])
                /\ (\A t \in Tasks : Idle(t)) => Count(x, ulog[p]) = Count(x, rlog[p])
          /\ (\A t \in Tasks : Idle(t)) =>
                \A x \in Errors : Count(x, rlog[p]) > 0 =>
                    \E w \in wdone :
                        /\ w.fn = "Write"
                        /\ w.p = p
                        /\ w.v = x
                        /\ w.sent = SentOf(subs[p], x, Len(subs[p]))

\* A node built from a data-only handler, with two subscribers, has read an
\* error and a payload: the data-only handler ran for the payload alone, and a
\* Write of the error on the node reached both subscribers.
C13_Witness ==
    \E p \in Nodes :
        /\ kind[p] = "D"
        /\ \A t \in Tasks : Idle(t)
        /\ rlog[p] = <<-1, 1>>
        /\ ulog[p] = <<1>>
        /\ \E w \in wdone : w.p = p /\ w.v = -1 /\ Len(w.sent) = 2

InitSignal ==
    /\ InitNodes
    /\ anim = NoFrame
    /\ InitSync
    /\ subs \in {NoSubs, Star}
    /\ subs0 = subs

RunSignal(t) ==
    \/ SignalNode(t) \/ SignalWrap(t) \/ SignalReject(t)
    \/ SignalLock(t) \/ SignalWait(t)
    \/ SignalAppend(t) \/ SignalStore(t) \/ SignalUnlock(t)

\* The receivers of the caller's next call.
Receivers == {1} \cup ({ret[1]} \ {Nil})

\* The arguments of the caller's calls.
SignalArgs ==
    {NodeArg(m) : m \in Nodes \ {1}} \cup {ShapeArg(s) : s \in Accepted \cup Others}

NextSignal ==
    \/ \E fn \in {"Signal", "AsyncSignal"}, p \in Receivers, x \in SignalArgs :
          calls < MaxCalls /\ CallSignal(1, fn, p, x)
    \/ \E t \in Callers : RunSignal(t)

SpecSignal == InitSignal /\ [][NextSignal]_vars

\* The calls that returned no node, and the calls that returned one.
Refused == {g \in sigs : g.n = Nil}
Granted == {g \in sigs : g.n # Nil}

\* C15: Signal(x) and AsyncSignal(x) with an x that is no node, no function of
\* a named handler type and no function of exactly three parameters with a
\* first that holds a Ctx and a second that holds an error return nil, append
\* nothing to the receiver's list and never take the lock: every such call has
\* returned nil, no call that returned nil was of another kind, such a call is
\* never past the type switch, and every list is the original list followed by
\* one entry per call that returned a node.
C15_RejectedArgumentLeavesList ==
    /\ \A g \in sigs :
          (g.x.t \in Others /\ g.x.t # "Func3") <=> g.n = Nil
    /\ \A <<t, k>> \in FramesAt :
          LET f == stack[t][k]
          IN  (f.fn \in {"Signal", "AsyncSignal"} /\ f.x.t \in Others /\ f.x.t # "Func3")
                  => (f.pc = "start" /\ writer[f.p] # t)
    /\ (\A t \in Tasks : Idle(t)) =>
          \A n \in AllNodes :
              Len(subs[n]) = Len(subs0[n]) + Cardinality({g \in Granted : g.p = n})
    /\ (\A t \in Tasks : Idle(t) /\ calls > 0 /\ Granted = {}) => subs = subs0

\* Every call of the caller was refused, one for each of two different shapes,
\* and the lists are as they were.
C15_Witness ==
    /\ \A t \in Tasks : Idle(t)
    /\ calls = 2
    /\ Granted = {}
    /\ \E g, h \in Refused : g.x.t = "Func4" /\ h.x.t = "Func3NoErr" /\ g.fn # h.fn
    /\ ret[1] = Nil
    /\ subs = subs0
    /\ subs[1] # <<>>

\* C16: every Signal(x) and AsyncSignal(x) that is accepted appends one node as
\* the new last element of the receiver's list and returns that node, which is
\* x itself when x is a node and a node just built when x is a function: the
\* list about to be unlocked is the list found under the lock followed by the
\* node; every call that returned a node left it in the receiver's list, past
\* the original entries; the caller holds the node the last call appended; and
\* every list is the original list followed by one entry per such call.
C16_AcceptedSignalAppendsAndReturns ==
    /\ \A <<t, k>> \in FramesAt :
          LET f == stack[t][k]
          IN  (f.fn \in {"Signal", "AsyncSignal"} /\ f.pc = "unlock") =>
                /\ subs[f.p] = Append(f.rng, f.n)
                /\ f.x.t = "Node" => f.n = f.x.id
    /\ \A g \in Granted :
          /\ g.at > Len(subs0[g.p])
          /\ g.at <= Len(subs[g.p])
          /\ subs[g.p][g.at] = g.n
          /\ g.x.t = "Node" => g.n = g.x.id
          /\ g.x.t # "Node" =>
                /\ g.n > NumNodes
                /\ g.n <= created
                /\ async[g.n] = (g.fn = "AsyncSignal")
                /\ \A h \in Granted : h.n = g.n => h = g
    /\ \A n \in AllNodes :
          /\ IsPrefix(subs0[n], subs[n])
          /\ Len(subs[n]) = Len(subs0[n]) + Cardinality({g \in Granted : g.p = n})
                + Cardinality({t \in Tasks : IsSignal(t, "unlock") /\ Top(t).p = n})
    /\ (Idle(1) /\ ret[1] # Nil) =>
          \E g \in Granted :
              /\ g.n = ret[1]
              /\ g.at = Len(subs[g.p])
              /\ subs[g.p][Len(subs[g.p])] = ret[1]

\* 1.Signal(2).Signal(3) has returned 3: the list of 1 is the original list
\* and 2, the list of 2 is its original list and 3, the list of 3 is as it was.
C16_Witness ==
    /\ Idle(1)
    /\ ret[1] = 3
    /\ \E g, h \in Granted :
          /\ g.p = 1 /\ g.x = NodeArg(2) /\ g.n = 2
          /\ h.p = 2 /\ h.x = NodeArg(3) /\ h.n = 3
    /\ subs0[1] # <<>>
    /\ subs[1] = Append(subs0[1], 2)
    /\ subs[2] = Append(subs0[2], 3)
    /\ subs[3] = subs0[3]

(***************************************************************************)
(* SpecAll: one caller makes calls of every kind one after another on the  *)
(* nodes of Star, beside the goroutines of the asynchronous nodes: Read on *)
(* any node, Write and WriteEvery on node 1, Signal and AsyncSignal on     *)
(* node 1 with another node or a Handler, Lift and DeLift of the nodes in  *)
(* order.  Node 1 is a synchronous node with a canonical handler, or an    *)
(* asynchronous one, and no node has an error-only handler; no call makes  *)
(* a node its own subscriber, and DeLift of two nodes or more does not     *)
(* return.                                                                 *)
(***************************************************************************)
InitAll ==
    /\ InitNodes
    /\ anim = NoFrame
    /\ \E k \in {Len(Ctors) - 1, Len(Ctors)} : InitCtors(k)
    /\ subs = Star
    /\ subs0 = subs

RunAll(t) ==
    \/ ReadAsync(t) \/ ReadSync(t) \/ ReadReturn(t)
    \/ HandlerCanon(t) \/ HandlerCount(t) \/ HandlerWrapData(t) \/ HandlerReturn(t)
    \/ DataHandlerCall(t) \/ DataHandlerReturn(t)
    \/ WriteRLock(t) \/ WriteLoop(t) \/ WriteRUnlock(t)
    \/ WriteEveryLen(t) \/ WriteEveryRLock(t) \/ WriteEveryForward(t)
    \/ WriteEverySkip(t) \/ WriteEveryRUnlock(t)
    \/ SignalNode(t) \/ SignalWrap(t) \/ SignalLock(t) \/ SignalWait(t)
    \/ SignalAppend(t) \/ SignalStore(t) \/ SignalUnlock(t)
    \/ LiftSkip(t) \/ LiftSignal(t) \/ LiftReturn(t)
    \/ DeLiftSkip(t) \/ DeLiftSignal(t)

\* The nodes of the model in order: 1, 2, ..., and in reverse order.
Forward == [k \in 1..NumNodes |-> k]
Backward == [k \in 1..NumNodes |-> NumNodes + 1 - k]

NextAll ==
    \/ \E p \in Nodes, b \in Payloads :
          calls < MaxCalls /\ CallRead(1, p, b, NoCtx)
    \/ \E c \in Carriers, v \in Errors :
          calls < MaxCalls /\ CallWrite(1, 1, c, v)
    \/ \E c \in Carriers, v \in Payloads :
          calls < MaxCalls /\ CallWriteEvery(1, 1, c, v, "nil")
    \/ \E fn \in {"Signal", "AsyncSignal"},
          x \in {NodeArg(m) : m \in Nodes \ {1}} \cup {ShapeArg("Handler")} :
          calls < MaxCalls /\ CallSignal(1, fn, 1, x)
    \/ calls < MaxCalls /\ CallLift(1, Forward)
    \/ calls < MaxCalls /\ CallDeLift(1, Backward)
    \/ \E t \in Tasks : RunAll(t)

SpecAll == InitAll /\ [][NextAll]_vars

\* C17: a node's subscriber list only grows, and only by the store of a
\* registration that holds the node's lock exclusively: in every step every
\* list is left as it is, or is the list before followed by the node of a
\* Signal or AsyncSignal (called directly or by Lift or DeLift) that holds the
\* writer slot of that node while the node has no reader; so no step of Read,
\* Write, WriteEvery or a handler changes a list.
C17_SubscribersAppendOnly ==
    [][\A n \in AllNodes :
          /\ IsPrefix(subs[n], subs'[n])
          /\ subs'[n] # subs[n] =>
                \E t \in Tasks :
                    /\ IsSignal(t, "store")
                    /\ Top(t).p = n
                    /\ writer[n] = t
                    /\ readers[n] = 0
                    /\ subs'[n] = Append(subs[n], Top(t).n)]_vars

\* A Write on node 1 that followed a registration on node 1 has returned: it
\* forwarded to the original subscribers and to the new one.
C17_Witness ==
    /\ \A t \in Tasks : Idle(t)
    /\ Len(subs[1]) = Len(subs0[1]) + 1
    /\ IsPrefix(subs0[1], subs[1])
    /\ \E w \in wdone : w.fn = "Write" /\ w.p = 1 /\ Len(w.sent) = Len(subs[1])

\* C18: the asynchronous flag of a node is the one its constructor gave it, in
\* every state: no step changes the flag of a node that exists, and a node
\* registered through Signal or AsyncSignal is used as it is, so that Read on
\* an asynchronous node never runs the op inline and Read on a synchronous one
\* never starts a goroutine, whichever method registered the node.
C18_AsyncFlagFixed ==
    /\ [][\A n \in 1..created : async'[n] = async[n]]_vars
    /\ [](\A g \in Granted : g.x.t # "Node" => async[g.n] = (g.fn = "AsyncSignal"))
    /\ [](\A tk \in FramesAt :
             LET t == tk[1]
                 k == tk[2]
                 f == stack[t][k]
             IN  f.fn = "Handler" =>
                    IF async[f.p]
                    THEN k = Len(stack[t]) /\ t \notin Callers
                    ELSE k < Len(stack[t]) /\ stack[t][k + 1].fn = "Read"
                            /\ stack[t][k + 1].p = f.p)

\* A synchronous node was registered through AsyncSignal, and the Read on it
\* that followed is running its op inline; or an asynchronous node was
\* registered through Signal, and the Read on it that followed has returned
\* while its op has not started.
C18_Witness ==
    \/ \E g \in Granted :
          /\ g.fn = "AsyncSignal"
          /\ g.x.t = "Node"
          /\ ~async[g.n]
          /\ Len(stack[1]) >= 2
          /\ stack[1][Len(stack[1])].fn = "Read"
          /\ stack[1][Len(stack[1])].p = g.n
          /\ stack[1][Len(stack[1]) - 1].fn = "Handler"
    \/ \E g \in Granted :
          /\ g.fn = "Signal"
          /\ g.x.t = "Node"
          /\ async[g.n]
          /\ Idle(1)
          /\ rret[g.n] = 1
          /\ hlog[g.n] = <<>>

(***************************************************************************)
(* SpecCycle: one caller makes one registration, which may close a cycle   *)
(* (Signal or AsyncSignal of any node on any node, itself included, Lift   *)
(* or DeLift of any list of up to MaxList nodes), then one Write on any    *)
(* node.  The recursion of Write is followed to a depth of MaxDepth calls. *)
(***************************************************************************)
InitCycle ==
    /\ InitNodes
    /\ anim = NoFrame
    /\ InitSync
    /\ subs \in {NoSubs, Star}
    /\ subs0 = subs

RunCycle(t) ==
    \/ SignalNode(t) \/ SignalLock(t) \/ SignalWait(t)
    \/ SignalAppend(t) \/ SignalStore(t) \/ SignalUnlock(t)
    \/ LiftSkip(t) \/ LiftSignal(t) \/ LiftReturn(t)
    \/ DeLiftSkip(t) \/ DeLiftSignal(t) \/ DeLiftReturn(t)
    \/ WriteRLock(t) \/ WriteRUnlock(t)

NextCycle ==
    \/ \E fn \in {"Signal", "AsyncSignal"}, p \in Nodes, m \in Nodes :
          calls = 0 /\ CallSignal(1, fn, p, NodeArg(m))
    \/ \E rws \in SeqsUpTo(Nodes, MaxList) : calls = 0 /\ CallLift(1, rws)
    \/ \E rws \in SeqsUpTo(Nodes, MaxList) : calls = 0 /\ CallDeLift(1, rws)
    \/ \E p \in Nodes, c \in Carriers, v \in Payloads :
          calls = 1 /\ CallWrite(1, p, c, v)
    \/ \E t \in Callers : RunCycle(t)
    \/ \E t \in Callers : Len(stack[t]) < MaxDepth /\ WriteLoop(t)

SpecCycle == InitCycle /\ [][NextCycle]_vars

\* The subscribers of the nodes of S, and the nodes a Write on a node of S
\* reaches in at most k further calls.
Subscribers(S) == UNION {{subs[n][j] : j \in 1..Len(subs[n])} : n \in S}

RECURSIVE Reach(_, _)
Reach(S, k) == IF k = 0 THEN S ELSE Reach(S \cup Subscribers(S), k - 1)

\* n is its own direct or indirect subscriber.
OnCycle(n) == n \in Reach(Subscribers({n}), NumNodes + MaxCalls)

\* C19: no registration is refused because it closes a cycle, and a Write on a
\* node of a cycle does not return: every Signal or AsyncSignal of a node,
\* called directly or by Lift or DeLift, has returned that node and left it in
\* the receiver's list, also when the node is the receiver or one of the nodes
\* the receiver is subscribed to; no Write on a node that is its own direct or
\* indirect subscriber has ever returned; and a Write that has not returned on
\* such a node has another Write running inside it or is about to call one.
C19_CyclesAcceptedWriteUnbounded ==
    /\ \A g \in sigs :
          /\ g.n = g.x.id
          /\ g.n # Nil
          /\ g.at <= Len(subs[g.p])
          /\ subs[g.p][g.at] = g.n
    /\ \A w \in wdone : ~OnCycle(w.p)
    /\ \A <<t, k>> \in FramesAt :
          LET f == stack[t][k]
          IN  (f.fn = "Write" /\ f.pc = "loop" /\ OnCycle(f.p) /\ f.rng = subs[f.p]) =>
                /\ Len(f.rng) > 0
                /\ IF k > 1
                   THEN Callee(t, k).fn = "Write" /\ Callee(t, k).p = f.rng[f.i]
                   ELSE f.i < Len(f.rng)

\* A registration made node 1 its own indirect subscriber, and the Write on
\* node 1 that followed is MaxDepth calls deep and has come back to node 1,
\* with no Write on node 1 returned.
C19_Witness ==
    /\ Len(stack[1]) = MaxDepth
    /\ \A k \in 1..MaxDepth : stack[1][k].fn = "Write"
    /\ stack[1][MaxDepth].p = 1
    /\ Cardinality({k \in 1..MaxDepth : stack[1][k].p = 1}) >= 2
    /\ 1 \notin Subscribers({1})
    /\ OnCycle(1)
    /\ \E g \in sigs : g.n = 1
    /\ \A w \in wdone : w.p # 1

(***************************************************************************)
(* Package vfx: AnimationSequence.  The first variant is the frame of      *)
(* part_000 lines 231-344, the second the frame with callback hooks and    *)
(* write reconciliation of lines 346-639.  Stats is an interface from      *)
(* outside the source: Loop(), TotalLoops() and Optimized() are attributes *)
(* of the stats the frame was built with, which Clone() keeps, and what    *)
(* IsDone(), IsFirstDone() and CompletedFirstTransition() answer is an     *)
(* input of each call.  The queues begin, ended and progress count their   *)
(* runs; nexts counts Stats().Next, stored the stores in the writer cache, *)
(* out is what the last Init or Sequence returned, over what the last      *)
(* IsOver returned, endCalls how often End ran.                            *)
(***************************************************************************)
Variants == {1, 2}

\* NewAnimationSequence, lines 236-239 and 407-418.
NewAnimationSequence(variant, loop, totalLoops, optimized) ==
    [NoFrame EXCEPT !.variant = variant, !.loop = loop,
                    !.totalLoops = totalLoops, !.optimized = optimized]

\* IsOver(), lines 253-259 and 421-427.
IsOver(f) ==
    IF f.loop THEN FALSE
    ELSE IF f.variant = 1 THEN f.done > 1 ELSE f.done > 0

\* The test of the first variant, which no stored value passes.
InitedNever(f) == f.inited > 1

\* Inited(), lines 267-269 and 460-462.
Inited(f) == IF f.variant = 1 THEN f.inited > 1 ELSE f.inited > 0

\* End(): atomic.StoreInt64(&f.done, 1), lines 262-264 and 455-457.
End(f) == [f EXCEPT !.done = 1, !.endCalls = @ + 1]

\* Phase() > STARTPHASE, lines 308-314 and 587-593.
Optimising(f) == f.completedFrame > 0

\* A caller makes the next call on the frame.
CanStep(variants) == anim.variant \in variants /\ anim.steps < MaxSteps
Stepped(f) == [f EXCEPT !.steps = @ + 1]

AnimIsOver ==
    /\ CanStep(Variants)
    /\ anim' = Stepped([anim EXCEPT !.over = IF IsOver(anim) THEN "yes" ELSE "no"])
    /\ UNCHANGED <<subs, async, kind, readers, writer, stack, spawned, calls, crashed,
                   rlog, rret, hlog, hdone, ulog, count, wcnt, wdone, sigs,
                   created, ret, subs0>>

AnimEnd ==
    /\ CanStep(Variants)
    /\ anim' = Stepped(End(anim))
    /\ UNCHANGED <<subs, async, kind, readers, writer, stack, spawned, calls, crashed,
                   rlog, rret, hlog, hdone, ulog, count, wcnt, wdone, sigs,
                   created, ret, subs0>>

\* Init() of the first variant, lines 273-288.
AnimInit1 ==
    /\ CanStep({1})
    /\ anim' = Stepped(IF Inited(anim) THEN [anim EXCEPT !.out = "ini"]
                       ELSE [anim EXCEPT !.inited = 1, !.out = "writers"])
    /\ UNCHANGED <<subs, async, kind, readers, writer, stack, spawned, calls, crashed,
                   rlog, rret, hlog, hdone, ulog, count, wcnt, wdone, sigs,
                   created, ret, subs0>>

\* Init(ms) of the second variant, lines 466-508.
AnimInit2 ==
    /\ CanStep({2})
    /\ anim' = Stepped(
          IF Inited(anim) THEN [anim EXCEPT !.out = "ini"]
          ELSE [anim EXCEPT
                  !.stored = IF anim.optimized /\ ~Optimising(anim) THEN @ + 1 ELSE @,
                  !.inited = 1,
                  !.begun = @ + 1,
                  !.nexts = @ + 1,
                  !.out = "writers"])
    /\ UNCHANGED <<subs, async, kind, readers, writer, stack, spawned, calls, crashed,
                   rlog, rret, hlog, hdone, ulog, count, wcnt, wdone, sigs,
                   created, ret, subs0>>

\* Sync() of the first variant, lines 291-305.
AnimSync1(isDone) ==
    /\ CanStep({1})
    /\ anim' = Stepped(
          IF isDone
          THEN LET g == [anim EXCEPT !.completedFrame = 1]
               IN  IF g.loop THEN g ELSE End(g)
          ELSE anim)
    /\ UNCHANGED <<subs, async, kind, readers, writer, stack, spawned, calls, crashed,
                   rlog, rret, hlog, hdone, ulog, count, wcnt, wdone, sigs,
                   created, ret, subs0>>

\* Sync() of the second variant, lines 541-584.
AnimSync2(isFirstDone, isDone) ==
    /\ CanStep({2})
    /\ anim' = Stepped(
          LET g == IF isFirstDone THEN [anim EXCEPT !.completedFrame = 1] ELSE anim
          IN  IF isDone
              THEN IF g.loop /\ (g.totalCycles < g.totalLoops \/ g.totalLoops < 0)
                   THEN [g EXCEPT !.lastCycle = g.totalCycles, !.totalCycles = @ + 1]
                   ELSE [End(g) EXCEPT !.ended = @ + 1]
              ELSE [g EXCEPT !.progressed = @ + 1])
    /\ UNCHANGED <<subs, async, kind, readers, writer, stack, spawned, calls, crashed,
                   rlog, rret, hlog, hdone, ulog, count, wcnt, wdone, sigs,
                   created, ret, subs0>>

\* Sequence() of the first variant, lines 323-344.
AnimSequence1(completedFirst) ==
    /\ CanStep({1})
    /\ anim' = Stepped([anim EXCEPT !.out = IF anim.optimized /\ completedFirst
                                            THEN "cached" ELSE "writers"])
    /\ UNCHANGED <<subs, async, kind, readers, writer, stack, spawned, calls, crashed,
                   rlog, rret, hlog, hdone, ulog, count, wcnt, wdone, sigs,
                   created, ret, subs0>>

\* A frame that never waits for its writers.
ContinueAlways(f) == TRUE

\* Continue(), lines 536-538.
Continue(f) == f.writesOn = 0

\* Sequence(ms) of the second variant, lines 602-639.
AnimSequence2 ==
    /\ CanStep({2})
    /\ anim' = Stepped(
          IF ~Continue(anim) THEN [anim EXCEPT !.out = "nil"]
          ELSE IF anim.optimized /\ Optimising(anim)
               THEN [anim EXCEPT !.out = "cached", !.nexts = @ + 1]
               ELSE [anim EXCEPT
                       !.stored = IF anim.optimized /\ ~Optimising(anim)
                                  THEN @ + 1 ELSE @,
                       !.nexts = @ + 1,
                       !.out = "writers"])
    /\ UNCHANGED <<subs, async, kind, readers, writer, stack, spawned, calls, crashed,
                   rlog, rret, hlog, hdone, ulog, count, wcnt, wdone, sigs,
                   created, ret, subs0>>

\* BeginWriting() and DoneWriting(), lines 524-532.
AnimBeginWriting ==
    /\ CanStep({2})
    /\ anim' = Stepped([anim EXCEPT !.writesOn = 1])
    /\ UNCHANGED <<subs, async, kind, readers, writer, stack, spawned, calls, crashed,
                   rlog, rret, hlog, hdone, ulog, count, wcnt, wdone, sigs,
                   created, ret, subs0>>

AnimDoneWriting ==
    /\ CanStep({2})
    /\ anim' = Stepped([anim EXCEPT !.writesOn = 0])
    /\ UNCHANGED <<subs, async, kind, readers, writer, stack, spawned, calls, crashed,
                   rlog, rret, hlog, hdone, ulog, count, wcnt, wdone, sigs,
                   created, ret, subs0>>

(***************************************************************************)
(* SpecAnim: a frame of either variant, built with any stats, receives up  *)
(* to MaxSteps calls of its methods in any order.                          *)
(***************************************************************************)
InitAnim ==
    /\ InitNodes
    /\ InitSync
    /\ subs = NoSubs
    /\ subs0 = subs
    /\ \E variant \in Variants, loop \in BOOLEAN, totalLoops \in {-1, 0, 1},
          optimized \in BOOLEAN :
          anim = NewAnimationSequence(variant, loop, totalLoops, optimized)

NextAnim ==
    \/ AnimIsOver
    \/ AnimEnd
    \/ AnimInit1
    \/ AnimInit2
    \/ \E isDone \in BOOLEAN : AnimSync1(isDone)
    \/ \E isFirstDone \in BOOLEAN, isDone \in BOOLEAN : AnimSync2(isFirstDone, isDone)
    \/ \E completedFirst \in BOOLEAN : AnimSequence1(completedFirst)
    \/ AnimSequence2
    \/ AnimBeginWriting
    \/ AnimDoneWriting

SpecAnim == InitAnim /\ [][NextAnim]_vars

\* C20: on a frame of either variant whose stats are not looping, once End
\* has run, by a call of End or inside Sync, IsOver answers true in every
\* later state.
C20_EndForcesOver ==
    (anim.variant \in Variants /\ ~anim.loop /\ anim.endCalls > 0) => IsOver(anim)

C22_EndedRunsAtMostOnce ==
    anim.variant = 2 => anim.ended <= 1

\* C28: in the frame with write reconciliation, a call of Sequence made while
\* writesOn is 1 returns nil, leaves the stats where they are and stores
\* nothing in the writer cache; a call made while writesOn is 0 returns
\* writers and advances the stats once.
C28_SequenceWaitsForWriters ==
    [][AnimSequence2 =>
         IF anim.writesOn = 1
         THEN /\ anim'.out = "nil"
              /\ anim'.nexts = anim.nexts
              /\ anim'.stored = anim.stored
         ELSE /\ anim'.out \in {"writers", "cached"}
              /\ anim'.nexts = anim.nexts + 1]_vars

\* After Init and BeginWriting, a call of Sequence returned nil: the stats
\* were advanced by Init alone.
C28_Witness ==
    /\ anim.variant = 2
    /\ anim.writesOn = 1
    /\ anim.out = "nil"
    /\ anim.inited = 1
    /\ anim.nexts = 1

(***************************************************************************)
(* SpecCtx: one call of Read, with or without a context, of Write or of    *)
(* WriteEvery on a node of the graph 1 -> 2, 1 -> 3, 2 -> 3, the nodes     *)
(* built by any of the constructors.                                       *)
(***************************************************************************)
InitCtx ==
    /\ InitNodes
    /\ anim = NoFrame
    /\ \E k \in 1..Len(Ctors) : InitCtors(k)
    /\ subs = Chains(<<2, 3>>)
    /\ subs0 = subs

NextCtx ==
    \/ \E p \in Nodes, b \in Values, ctxs \in {NoCtx} \cup {<<c>> : c \in Carriers} :
          calls = 0 /\ CallRead(1, p, b, ctxs)
    \/ \E p \in Nodes, c \in Carriers \cup {NewCtx}, v \in Values :
          calls = 0 /\ CallWrite(1, p, c, v)
    \/ \E p \in Nodes, c \in Carriers \cup {NewCtx}, v \in Values :
          calls = 0 /\ CallWriteEvery(1, p, c, v, "nil")
    \/ \E t \in Tasks : Run(t)

SpecCtx == InitCtx /\ [][NextCtx]_vars

\* The carrier Read(b, ctxs...) was called for.
Passed(ctxs) == IF ctxs = <<>> THEN NewCtx ELSE Head(ctxs)

\* C23: every invocation of a node's handler has that node as the surface of
\* its context, and the carrier Read was called with, or the default one when
\* Read was called with none: this for the inline invocation, which has the
\* Read below it, and for the goroutine an asynchronous Read starts.  Every
\* Write called from the fan-out of a Write or WriteEvery of node p has p as
\* the surface of its context and the carrier of the context p's call
\* received, so every frame of one task has the same carrier.
C23_ContextSurfaceAndCarrier ==
    /\ [](\A pl \in FramesAt :
            LET t == pl[1]
                k == pl[2]
                f == stack[t][k]
            IN  /\ f.fn = "Handler" => f.surface = f.p
                /\ (f.fn = "Handler" /\ k < Len(stack[t])
                        /\ stack[t][k + 1].fn = "Read") =>
                      /\ f.p = stack[t][k + 1].p
                      /\ f.carrier = Passed(stack[t][k + 1].lst)
                /\ (f.fn = "Write" /\ k < Len(stack[t])
                        /\ stack[t][k + 1].fn \in {"Write", "WriteEvery"}) =>
                      /\ f.surface = stack[t][k + 1].p
                      /\ f.carrier = stack[t][k + 1].carrier
                /\ \A j \in 1..Len(stack[t]) : stack[t][j].carrier = f.carrier)
    /\ [][\A t \in Tasks :
            (At(t, "Read", "start") /\ async[Top(t).p] /\ stack'[t] = Rest(t)) =>
                /\ Len(stack'[NextTask]) = 1
                /\ stack'[NextTask][1].fn = "Handler"
                /\ stack'[NextTask][1].p = Top(t).p
                /\ stack'[NextTask][1].surface = Top(t).p
                /\ stack'[NextTask][1].carrier = Passed(Top(t).lst)]_vars

\* A synchronous Read on node 1 with a context of the caller's: its handler
\* wrote to node 1, node 1 forwarded to node 2 and node 2 to node 3, whose
\* Write received the carrier of the Read and node 2 as surface.
C23_Witness ==
    /\ Len(stack[1]) >= 5
    /\ stack[1][1].fn = "Write"
    /\ stack[1][1].p = 3
    /\ stack[1][1].surface = 2
    /\ stack[1][1].carrier \in Carriers
    /\ stack[1][2].fn = "Write"
    /\ stack[1][2].p = 2
    /\ stack[1][2].surface = 1
    /\ stack[1][3].fn = "Write"
    /\ stack[1][3].p = 1
    /\ stack[1][Len(stack[1])].fn = "Read"
    /\ stack[1][Len(stack[1])].lst = <<stack[1][1].carrier>>

(***************************************************************************)
(* SpecEvery: up to MaxCalls callers call, beside each other, Signal or    *)
(* AsyncSignal with a node and WriteEvery with any finder, all on node 1   *)
(* of the graph 1 -> 2, 1 -> 3, 2 -> 3; caller t makes the t-th call.      *)
(***************************************************************************)
InitEvery ==
    /\ InitNodes
    /\ anim = NoFrame
    /\ InitSync
    /\ subs = Chains(<<2, 3>>)
    /\ subs0 = subs

RunEvery(t) ==
    \/ SignalNode(t) \/ SignalLock(t) \/ SignalWait(t)
    \/ SignalAppend(t) \/ SignalStore(t) \/ SignalUnlock(t)
    \/ WriteEveryLen(t) \/ WriteEveryRLock(t) \/ WriteEveryForward(t)
    \/ WriteEverySkip(t) \/ WriteEveryRUnlock(t)
    \/ WriteRLock(t) \/ WriteLoop(t) \/ WriteRUnlock(t)

NextEvery ==
    \/ \E t \in Callers, fn \in {"Signal", "AsyncSignal"}, m \in Registrable :
          t = calls + 1 /\ calls < MaxCalls /\ CallSignal(t, fn, 1, NodeArg(m))
    \/ \E t \in Callers, c \in Carriers, v \in Payloads, fd \in Finders :
          t = calls + 1 /\ calls < MaxCalls /\ CallWriteEvery(t, 1, c, v, fd)
    \/ \E t \in Callers : RunEvery(t)

SpecEvery == InitEvery /\ [][NextEvery]_vars

\* The frames of a WriteEvery that holds the read lock of its node.
EveryLoops ==
    {pl \in FramesAt : stack[pl[1]][pl[2]].fn = "WriteEvery"
                          /\ stack[pl[1]][pl[2]].pc = "loop"}

\* C24: while a WriteEvery holds the read lock of its node, the N it passes
\* to the finder and uses as the bound of its loop is the length of the
\* node's subscriber list.
C24_LengthReadUnderLock ==
    \A pl \in EveryLoops :
        stack[pl[1]][pl[2]].nlen = Len(subs[stack[pl[1]][pl[2]].p])

\* C25: no WriteEvery reads p.subs at a position outside the list: no call
\* ends in the panic of an index out of range, the bound of the loop is at
\* most the length of the list, and every position a call has read is at
\* least 0 and below the length of the list.
C25_IndexWithinList ==
    /\ ~crashed
    /\ \A pl \in EveryLoops :
          LET f == stack[pl[1]][pl[2]]
          IN  /\ f.i <= f.nlen
              /\ f.nlen <= Len(subs[f.p])
              /\ \A j \in 1..Len(f.sent) :
                    /\ f.sent[j].pos >= 0
                    /\ f.sent[j].pos < Len(subs[f.p])
                    /\ f.sent[j].n = subs[f.p][f.sent[j].pos + 1]

\* A WriteEvery took the length of the list, a registration then made the
\* list longer, and the WriteEvery has read the list at a position and
\* forwarded.
C25_Witness ==
    \E pl \in EveryLoops :
        LET f == stack[pl[1]][pl[2]]
        IN  /\ f.nlen < Len(subs[f.p])
            /\ f.nlen >= 2
            /\ f.sent # <<>>
            /\ f.finder = "succ"

(***************************************************************************)
(* SpecDag: up to MaxCalls callers call, beside each other, Read, Write,   *)
(* WriteEvery, Signal and AsyncSignal on the nodes of the acyclic graph    *)
(* 1 -> 2, 1 -> 3, 2 -> 3.  The first caller calls Read on any node, or    *)
(* Write or WriteEvery on node 1; a later caller t calls Write on node 2   *)
(* or registers the last node with node t - 1, which has a lower number,   *)
(* so the graph stays acyclic.  Caller t makes the t-th call.  The nodes   *)
(* are built by two assignments of the constructors that have a canonical, *)
(* a data and an error handler and synchronous and asynchronous nodes      *)
(* among them.                                                             *)
(* Every goroutine that can take a step eventually takes one: the          *)
(* Go scheduler runs every runnable goroutine, and a goroutine blocked in  *)
(* RLock or Lock is woken when the lock is released.                       *)
(***************************************************************************)
InitDag ==
    /\ InitNodes
    /\ anim = NoFrame
    /\ \E k \in {4, 5} : InitCtors(k)
    /\ subs = Chains(<<2, 3>>)
    /\ subs0 = subs

RunDag(t) ==
    \/ Run(t)
    \/ SignalNode(t) \/ SignalLock(t) \/ SignalWait(t)
    \/ SignalAppend(t) \/ SignalStore(t) \/ SignalUnlock(t)

NextDag ==
    \/ \E p \in Nodes, b \in Values :
          calls = 0 /\ CallRead(1, p, b, NoCtx)
    \/ \E c \in Carriers, v \in Payloads :
          calls = 0 /\ CallWrite(1, 1, c, v)
    \/ \E c \in Carriers, v \in Payloads :
          calls = 0 /\ CallWriteEvery(1, 1, c, v, "nil")
    \/ \E t \in Callers, c \in Carriers, v \in Payloads :
          t = calls + 1 /\ t > 1 /\ calls < MaxCalls /\ CallWrite(t, 2, c, v)
    \/ \E t \in Callers, fn \in {"Signal", "AsyncSignal"} :
          /\ t = calls + 1 /\ t > 1 /\ calls < MaxCalls
          /\ CallSignal(t, fn, t - 1, NodeArg(NumNodes))
    \/ \E t \in Tasks : RunDag(t)

SpecDag == InitDag /\ [][NextDag]_vars /\ \A t \in Tasks : WF_vars(RunDag(t))

\* The number of subscriber paths from node r to node d, the path of no step
\* from a node to itself counted; k bounds the length of a path.
RECURSIVE Paths(_, _, _)
RECURSIVE PathsVia(_, _, _)
Paths(r, d, k) ==
    IF r = d THEN 1
    ELSE IF k = 0 THEN 0 ELSE PathsVia(subs[r], d, k - 1)
PathsVia(list, d, k) ==
    IF list = <<>> THEN 0
    ELSE Paths(Head(list), d, k) + PathsVia(Tail(list), d, k)

\* C26: on an acyclic graph, whenever a call is under way some goroutine can
\* take a step, and every call eventually returns: as the callers make
\* finitely many calls, that is that again and again no goroutine is inside a
\* call; while the only call made is a Write at node r, that call or one it
\* made has invoked Write on node d at most as often as there are subscriber
\* paths from r to d, and exactly as often when that call is about to
\* return.
C26_AcyclicCallsReturn ==
    /\ [](~crashed)
    /\ []((\E t \in Tasks : ~Idle(t)) => \E t \in Tasks : ENABLED RunDag(t))
    /\ [](\A t \in Tasks :
            (calls = 1 /\ ~Idle(t) /\ stack[t][Len(stack[t])].fn = "Write") =>
                LET b == stack[t][Len(stack[t])]
                IN  \A d \in AllNodes :
                        /\ wcnt[d] <= Paths(b.p, d, NumNodes)
                        /\ (Len(stack[t]) = 1 /\ b.pc = "loop" /\ b.i >= Len(b.rng))
                              => wcnt[d] = Paths(b.p, d, NumNodes))
    /\ []<>(\A t \in Tasks : Idle(t))

\* A Write at node 1, the only call, is about to return: node 3 has had its
\* Write invoked twice, once on each of the paths 1 -> 3 and 1 -> 2 -> 3.
C26_Witness ==
    /\ calls = 1
    /\ Len(stack[1]) = 1
    /\ stack[1][1].fn = "Write"
    /\ stack[1][1].p = 1
    /\ stack[1][1].pc = "loop"
    /\ stack[1][1].i >= Len(stack[1][1].rng)
    /\ wcnt[NumNodes] = 2
    /\ Paths(1, NumNodes, NumNodes) = 2

(***************************************************************************)
(* SpecAsync: every node is built by ASync or DASync, with a canonical, a  *)
(* data or an error handler; one caller calls Read on node 1 of Star, up   *)
(* to MaxCalls times, one call after the other, while the goroutines the   *)
(* earlier calls started run.  Every goroutine that can take a step        *)
(* eventually takes one.                                                   *)
(***************************************************************************)
InitAsync ==
    /\ InitNodes
    /\ anim = NoFrame
    /\ async = [n \in AllNodes |-> n \in Nodes]
    /\ \E k \in 1..Len(Ctors) :
          kind = [n \in AllNodes |-> IF n \in Nodes THEN CtorOf(k, n).kind ELSE "H"]
    /\ subs = Star
    /\ subs0 = subs

RunAsync(t) ==
    \/ ReadAsync(t)
    \/ HandlerCanon(t) \/ HandlerCount(t) \/ HandlerWrapData(t)
    \/ HandlerWrapError(t) \/ HandlerReturn(t)
    \/ DataHandlerCall(t) \/ DataHandlerReturn(t) \/ ErrorHandlerCall(t)
    \/ WriteRLock(t) \/ WriteLoop(t) \/ WriteRUnlock(t)

NextAsync ==
    \/ \E b \in Values :
          calls < MaxCalls /\ CallRead(1, 1, b, NoCtx)
    \/ \E t \in Tasks : RunAsync(t)

SpecAsync == InitAsync /\ [][NextAsync]_vars /\ \A t \in Tasks : WF_vars(RunAsync(t))

\* The invocations of n's handler that Read has yet to cause.
Owed(n) == Len(rlog[n]) - Len(hlog[n])

\* C27: on an asynchronous node the handler has been invoked at most once
\* for each Read call made, and with each value at most as often as Read was
\* called with it; once every goroutine has finished it has been invoked, and
\* has returned, exactly once for each call; and again and again every call
\* made so far has had its invocation return.
C27_AsyncReadInvokesOnce ==
    /\ [](\A n \in Nodes : async[n] =>
            /\ Owed(n) >= 0
            /\ hdone[n] <= Len(hlog[n])
            /\ \A v \in Values : Count(v, hlog[n]) <= Count(v, rlog[n])
            /\ (\A t \in Tasks : Idle(t)) =>
                  /\ hdone[n] = Len(rlog[n])
                  /\ \A v \in Values : Count(v, hlog[n]) = Count(v, rlog[n]))
    /\ []<>(\A n \in Nodes : async[n] => hdone[n] = Len(rlog[n]))

\* Two Read calls on one node with different values: both invocations have
\* returned, and the handler ran for the second call first.
C27_Witness ==
    \E n \in Nodes :
        /\ async[n]
        /\ Len(rlog[n]) = 2
        /\ rlog[n][1] # rlog[n][2]
        /\ hlog[n] = <<rlog[n][2], rlog[n][1]>>
        /\ hdone[n] = 2
        /\ \A t \in Tasks : Idle(t)

====
